---------------------------- MODULE Spec2Model ----------------------------
(***************************************************************************)
(* A model of robocorp/llmstatemachine.                                    *)
(*                                                                         *)
(* examples/html_agent/html_extractor.py: the budget-directed HTML         *)
(* renderer (shortened_string, format_attributes, format_children,         *)
(* format_element, collapse_html_elements, truncate_until,                 *)
(* pretty_print_html, html_explorer).                                      *)
(* src/llmstatemachine/workflow_agent.py: WorkflowAgentBuilder,            *)
(* WorkflowAgent (trigger, step, function_def_action_selector) and         *)
(* execute_function_call.                                                  *)
(* examples/html_agent/html_agent.py and examples/memory_game.py: the two  *)
(* programs built on the workflow agent.                                   *)
(*                                                                         *)
(* Python strings are TLA+ strings; TLC evaluates Len, SubSeq and \o on    *)
(* them.  Python indices are 0-based and are kept 0-based in the model.    *)
(* Every function of the source is an operator of the same name (in        *)
(* CamelCase); each specification draws the inputs of one function from    *)
(* bounded sets in its Init and applies the function in its actions.       *)
(***************************************************************************)
EXTENDS Integers, Sequences, FiniteSets, TLC

VARIABLES
    pc,                  \* position of the call: "call", "filtered", "done", "hang"
    content,             \* the string argument (content / original_html)
    focus_text,          \* focus_text of the call
    budget,              \* max_string_length / max_size_for_* / max_total_length
    context_length,      \* context_length of shortened_string
    node,                \* the tag / children holder / parsed document of the call
    attribute_priority,  \* attribute_priority of the call
    collapsed_elements,  \* collapsed_elements of the call
    css_selector,        \* css_selector of html_explorer
    max_matches,         \* max_matches of html_explorer
    working,             \* html_explorer: html_content and post_fix after the filter
    path,                \* which return statement produced result
    kept,                \* truncate_until: source index of every character kept
    result,              \* the value returned
    transitions,         \* WorkflowAgentBuilder / WorkflowAgent: _transitions
    current_state,       \* WorkflowAgent: _current_state
    messages,            \* WorkflowAgent: _messages
    deck,                \* memory_game.py: deck
    board,               \* memory_game.py: board
    expectations         \* html_agent.py: expectations

vars == <<pc, content, focus_text, budget, context_length, node,
          attribute_priority, collapsed_elements, css_selector, max_matches,
          working, path, kept, result, transitions, current_state, messages,
          deck, board, expectations>>

\* the globals of the example programs
example_vars == <<deck, board, expectations>>

\* the variables of the workflow agent and of the programs built on it
agent_vars ==
    <<transitions, current_state, messages, deck, board, expectations>>

\* the variables of the calls of html_extractor.py
extractor_vars ==
    <<content, focus_text, budget, context_length, node, attribute_priority,
      collapsed_elements, css_selector, max_matches, working, kept>>

-----------------------------------------------------------------------------
(* Bounds of the model.                                                    *)

\* longest content handed to shortened_string, all strings enumerated
MaxContentLen == 6
\* longest focus text, all strings enumerated
MaxFocusLen == 2
\* largest max_string_length handed to shortened_string
MaxStringLength == 7
\* longest original_html handed to truncate_until, all strings enumerated
MaxHtmlLen == 6
\* largest max_total_length handed to truncate_until
MaxTruncLength == 6
\* most attributes on the tag handed to format_attributes
MaxAttrs == 3
\* max_size_for_attrs ranges over the multiples of 5 from -5 to 5 * this
MaxAttrBudgetSteps == 14
\* most children handed to format_children: lists of elements and
\* non-empty strings
MaxChildren == 7
\* most children in the lists that also hold empty strings
MaxMixedChildren == 5
\* the budgets handed to format_children besides 0
SmallChildrenBudget == 12
LargeChildrenBudget == 45
\* most <p> items in a document handed to html_explorer
MaxItems == 6
\* length of the padding that makes a text, a comment or a value long
LongPad == 60
\* the max_total_length values handed to html_explorer besides 0
SmallBudget == 4
MidBudget == 90
WideBudget == 250
LargeBudget == 600
\* largest max_matches handed to html_explorer
MaxMatchesBound == 2
MaxElementSize == 120
MaxMessages == 3

(* Program constants.                                                      *)

\* shortened_string(max_string_length: int = 50)
DefaultMaxStringLength == 50
\* shortened_string(context_length: int = 5)
DefaultContextLength == 5
\* format_children(max_child_elements: int = 5)
DefaultMaxChildElements == 5
\* format_content: max(max_content_size, 50)
MinContentSize == 50
\* html_explorer(max_matches=20)
DefaultMaxMatches == 20

-----------------------------------------------------------------------------
(* Python built-ins.                                                       *)

Max(a, b) == IF a >= b THEN a ELSE b

Min(a, b) == IF a <= b THEN a ELSE b

\* s[i] for 0 <= i < len(s)
CharAt(s, i) == SubSeq(s, i + 1, i + 1)

\* a slice bound as Python normalises it: negative counts from the end,
\* everything is clamped to 0 .. n
SliceBound(n, i) == IF i < 0 THEN Max(i + n, 0) ELSE Min(i, n)

\* s[a:b]
PySlice(s, a, b) ==
    LET n  == Len(s)
        lo == SliceBound(n, a)
        hi == SliceBound(n, b)
    IN  IF lo < hi THEN SubSeq(s, lo + 1, hi) ELSE ""

\* xs[a:b] for a list
PySliceSeq(xs, a, b) ==
    SubSeq(xs, SliceBound(Len(xs), a) + 1, SliceBound(Len(xs), b))

\* the 0-based indices that s[a:b] reads, for a string of length n
PySliceIdx(n, a, b) ==
    LET lo == SliceBound(n, a)
        hi == SliceBound(n, b)
    IN  IF lo < hi THEN [i \in 1..(hi - lo) |-> lo + i - 1] ELSE <<>>

\* the least element of a non-empty set of integers
Least(set) == CHOOSE x \in set : \A y \in set : x <= y

\* the greatest element of a non-empty set of integers
Greatest(set) == CHOOSE x \in set : \A y \in set : x >= y

\* s.find(sub, from): lowest index >= from where sub occurs, or -1
FindFrom(s, sub, from) ==
    LET hits == {i \in from..(Len(s) - Len(sub)) :
                    SubSeq(s, i + 1, i + Len(sub)) = sub}
    IN  IF hits = {} THEN -1 ELSE Least(hits)

\* s.find(sub)
Find(s, sub) == FindFrom(s, sub, 0)

\* sub in s
Contains(s, sub) == Find(s, sub) >= 0

\* str.strip(): the characters Python treats as whitespace
Whitespace == {" ", "\n", "\t"}

RECURSIVE LStrip(_)
LStrip(s) ==
    IF Len(s) > 0 /\ CharAt(s, 0) \in Whitespace
    THEN LStrip(SubSeq(s, 2, Len(s))) ELSE s

RECURSIVE RStrip(_)
RStrip(s) ==
    IF Len(s) > 0 /\ CharAt(s, Len(s) - 1) \in Whitespace
    THEN RStrip(SubSeq(s, 1, Len(s) - 1)) ELSE s

Strip(s) == LStrip(RStrip(s))

\* "".join(parts)
RECURSIVE Join(_)
Join(parts) ==
    IF parts = <<>> THEN "" ELSE Head(parts) \o Join(Tail(parts))

\* sep.join(parts)
RECURSIVE JoinWith(_, _)
JoinWith(sep, parts) ==
    IF parts = <<>> THEN ""
    ELSE IF Len(parts) = 1 THEN Head(parts)
    ELSE Head(parts) \o sep \o JoinWith(sep, Tail(parts))

\* set(xs)
Elements(xs) == {xs[i] : i \in 1..Len(xs)}

\* sum(xs)
RECURSIVE Sum(_)
Sum(xs) == IF xs = <<>> THEN 0 ELSE Head(xs) + Sum(Tail(xs))

\* int(a / b) for b > 0: true division, then truncation towards zero
IntDiv(a, b) == IF a >= 0 THEN a \div b ELSE -((-a) \div b)

\* the last position of the run of consecutive indices that starts at
\* position k of idx
RunEnd(idx, k) ==
    Least({j \in k..Len(idx) : j = Len(idx) \/ idx[j + 1] # idx[j] + 1})

\* the characters of s at the 0-based indices idx, in that order, copied
\* one run of consecutive indices at a time
RECURSIVE CharsAt(_, _)
CharsAt(s, idx) ==
    IF idx = <<>> THEN ""
    ELSE LET run == RunEnd(idx, 1)
         IN  SubSeq(s, idx[1] + 1, idx[1] + run)
                \o CharsAt(s, SubSeq(idx, run + 1, Len(idx)))

\* every string over alphabet of length at most n
RECURSIVE Strings(_, _)
Strings(alphabet, n) ==
    IF n = 0 THEN {""}
    ELSE LET shorter == Strings(alphabet, n - 1)
         IN  shorter \cup {s \o c : s \in shorter, c \in alphabet}

-----------------------------------------------------------------------------
(* shortened_string, html_extractor.py 66-125.                             *)

\* breakpoints = [" ", "/", ".", ",", ";", "-", "_"]
Breakpoints == {" ", "/", ".", ",", ";", "-", "_"}

\* while left_break > 0 and content[left_break] not in breakpoints:
\* left_break -= 1, from left_break = mid_idx: the loop stops at the
\* nearest breakpoint at or left of mid_idx, or at 0
LeftBreak(s, mid_idx) ==
    Greatest({0} \cup {i \in 1..mid_idx : CharAt(s, i) \in Breakpoints})

\* while right_break < len(content) and content[right_break] not in
\* breakpoints: right_break += 1, from right_break = mid_idx
RightBreak(s, mid_idx) ==
    Least({Len(s)} \cup
          {i \in mid_idx..(Len(s) - 1) : CharAt(s, i) \in Breakpoints})

\* the branch "if focus_text and focus_text in content" is taken
FocusBranch(s, focus) == focus # "" /\ Contains(s, focus)

\* the trimming loop of lines 115-123.  With both parts empty and
\* 2 > max_string_length an iteration changes nothing and the condition
\* stays true: the loop never exits (TrimLoopHangs); the operator then
\* returns the state the loop spins in.
RECURSIVE TrimLoop(_, _, _)
TrimLoop(begin_part, end_part, max_string_length) ==
    IF ~(Len(begin_part) + Len(end_part) + 2 > max_string_length)
    THEN <<begin_part, end_part>>
    ELSE IF begin_part = "" /\ end_part = ""
    THEN <<begin_part, end_part>>
    ELSE IF Len(begin_part) > Len(end_part)
    THEN TrimLoop(PySlice(begin_part, 0, -1), end_part, max_string_length)
    ELSE IF Len(end_part) > Len(begin_part)
    THEN TrimLoop(begin_part, PySlice(end_part, 1, Len(end_part)),
                  max_string_length)
    ELSE TrimLoop(PySlice(begin_part, 0, -1),
                  PySlice(end_part, 1, Len(end_part)), max_string_length)

\* the call never returns: the no-focus branch with max_string_length < 2
ShortenedStringHangs(s, focus, max_string_length) ==
    /\ Len(s) > max_string_length
    /\ ~FocusBranch(s, focus)
    /\ 2 > max_string_length

ShortenedString(s, focus, max_string_length, ctx) ==
    IF Len(s) <= max_string_length THEN s
    ELSE IF FocusBranch(s, focus) THEN
        LET start_idx0  == Max(Find(s, focus) - ctx, 0)
            end_idx0    == Min(Find(s, focus) + Len(focus) + ctx, Len(s))
            length_diff == max_string_length - (end_idx0 - start_idx0)
            half_diff   == length_diff \div 2
            start_idx   == Max(start_idx0 - half_diff, 0)
            end_idx     == Min(end_idx0 + half_diff, Len(s))
            truncated_str   == PySlice(s, start_idx, end_idx)
            ellipsis_prefix == IF start_idx > 0 THEN ".." ELSE ""
            ellipsis_suffix == IF end_idx < Len(s) THEN ".." ELSE ""
        IN  ellipsis_prefix \o truncated_str \o ellipsis_suffix
    ELSE
        LET mid_idx     == Len(s) \div 2
            left_break  == LeftBreak(s, mid_idx)
            right_break == RightBreak(s, mid_idx)
            parts       == TrimLoop(PySlice(s, 0, left_break),
                                    PySlice(s, right_break, Len(s)),
                                    max_string_length)
        IN  parts[1] \o ".." \o parts[2]

-----------------------------------------------------------------------------
(* truncate_until, html_extractor.py 360-439.                              *)
(*                                                                         *)
(* Every piece of the output but the trailing marker is a slice of         *)
(* original_html, so the output is built as the sequence of the 0-based    *)
(* source indices it copies (kept); len(truncated_html) is Len(kept).      *)

\* re.match(pattern, s, pos = at) succeeds, for a pattern of ordinary
\* characters and ".": "." matches any character but a newline, every
\* other character matches itself
PatternMatchesAt(pattern, s, at) ==
    /\ at + Len(pattern) <= Len(s)
    /\ \A i \in 1..Len(pattern) :
          \/ SubSeq(pattern, i, i) = SubSeq(s, at + i, at + i)
          \/ (SubSeq(pattern, i, i) = "." /\ SubSeq(s, at + i, at + i) # "\n")

\* the start of the first match of pattern in s at or after from, or -1
PatternSearch(pattern, s, from) ==
    LET hits == {i \in from..(Len(s) - Len(pattern)) :
                    PatternMatchesAt(pattern, s, i)}
    IN  IF hits = {} THEN -1 ELSE Least(hits)

\* list(re.finditer(focus_text, original_html)): focus_text is compiled as
\* a regular expression (here of ordinary characters and "."); the matches
\* do not overlap, each search resuming at the end of the previous match
RECURSIVE FindIter(_, _, _)
FindIter(focus, s, from) ==
    LET at == PatternSearch(focus, s, from)
    IN  IF at < 0 THEN <<>>
        ELSE <<<<at, at + Len(focus)>>>> \o FindIter(focus, s, at + Len(focus))

\* lines 379-387: merge the (sorted) segments that overlap or touch
RECURSIVE MergeSegments(_, _)
MergeSegments(merged_segments, preserved_segments) ==
    IF preserved_segments = <<>> THEN merged_segments
    ELSE LET seg  == Head(preserved_segments)
             n    == Len(merged_segments)
         IN  IF n > 0 /\ seg[1] <= merged_segments[n][2]
             THEN MergeSegments(
                    [merged_segments EXCEPT
                        ![n] = <<merged_segments[n][1],
                                 Max(merged_segments[n][2], seg[2])>>],
                    Tail(preserved_segments))
             ELSE MergeSegments(Append(merged_segments, seg),
                                Tail(preserved_segments))

\* [a, b) as a sequence of indices
Span(a, b) == IF a < b THEN [i \in 1..(b - a) |-> a + i - 1] ELSE <<>>

\* lines 403-410: the gaps before, between and after the merged segments,
\* each as its index span <<start, end>>
TruncatedSegments(merged_segments, n) ==
    [i \in 1..(Len(merged_segments) + 1) |->
        <<IF i = 1 THEN 0 ELSE merged_segments[i - 1][2],
          IF i = Len(merged_segments) + 1 THEN n ELSE merged_segments[i][1]>>]

\* lines 413-424: the loop over the gaps, from gap i (0-based) on
RECURSIVE DistributeLoop(_, _, _, _)
DistributeLoop(truncated_html, truncated_segments, i, remaining_length) ==
    IF i >= Len(truncated_segments) THEN truncated_html
    ELSE
        LET gap      == truncated_segments[i + 1]
            quotient == remaining_length
                            \div Max(1, Len(truncated_segments) - i)
            segment_length ==
                IF remaining_length > 0 THEN Max(1, quotient) ELSE 0
            taken    == Span(gap[1], Min(gap[1] + segment_length, gap[2]))
            remaining == remaining_length - Len(taken)
        IN  IF remaining <= 0 THEN truncated_html \o taken
            ELSE DistributeLoop(truncated_html \o taken, truncated_segments,
                                i + 1, remaining)

\* "".join(original_html[start:end] for start, end in merged_segments)
RECURSIVE SegmentsIdx(_)
SegmentsIdx(segs) ==
    IF segs = <<>> THEN <<>>
    ELSE Span(Head(segs)[1], Head(segs)[2]) \o SegmentsIdx(Tail(segs))

\* f" .. {omitted} characters omitted"
OmittedMarker(omitted) == " .. " \o ToString(omitted) \o " characters omitted"

\* truncate_until as [kept |-> the indices of original_html copied to the
\* output, in output order, marker |-> the text appended after them]
TruncateUntilParts(original_html, focus, max_total_length) ==
    LET n == Len(original_html)
        matches == IF focus = "" THEN <<>> ELSE FindIter(focus, original_html, 0)
    IN  IF n <= max_total_length
        THEN [kept |-> Span(0, n), marker |-> ""]
        ELSE IF matches = <<>>
        THEN [kept   |-> PySliceIdx(n, 0, max_total_length),
              marker |-> OmittedMarker(n - max_total_length)]
        ELSE
            LET merged_segments  == MergeSegments(<<>>, matches)
                preserved_length ==
                    Sum([i \in 1..Len(merged_segments) |->
                            merged_segments[i][2] - merged_segments[i][1]])
                remaining_length == max_total_length - preserved_length
            IN  IF remaining_length < 0
                THEN [kept   |-> LET preserved == SegmentsIdx(merged_segments)
                                 IN  SubSeq(preserved, 1,
                                        SliceBound(Len(preserved),
                                                   max_total_length)),
                      marker |-> " ..."]
                ELSE
                    LET distributed ==
                            DistributeLoop(<<>>,
                                TruncatedSegments(merged_segments, n),
                                0, remaining_length)
                        \* lines 427-431: every gap in full, then its segment
                        last_end == merged_segments[Len(merged_segments)][2]
                        upto     == distributed \o Span(0, last_end)
                        truncated_html ==
                            upto \o PySliceIdx(n, last_end,
                                               max_total_length - Len(upto))
                        omitted_len == n - Len(truncated_html)
                    IN  [kept   |-> truncated_html,
                         marker |-> IF omitted_len > 0
                                    THEN OmittedMarker(omitted_len) ELSE ""]

TruncateUntil(original_html, focus, max_total_length) ==
    LET parts == TruncateUntilParts(original_html, focus, max_total_length)
    IN  CharsAt(original_html, parts.kept) \o parts.marker

-----------------------------------------------------------------------------
(* The document tree BeautifulSoup(html, "html.parser") builds, and its    *)
(* serialisations.  A node is a Tag (name, attrs in insertion order as     *)
(* <<name, value>> pairs with string values, children), a NavigableString  *)
(* (kind "text") or a Comment; the BeautifulSoup object itself is the node *)
(* of kind "doc".  Tag names range over non-void elements outside          *)
(* <pre>/<textarea>, and texts hold none of & < >.                         *)

Tag(name, attrs, children) ==
    [kind |-> "tag", name |-> name, attrs |-> attrs, children |-> children,
     text |-> ""]

Text(text) ==
    [kind |-> "text", name |-> "", attrs |-> <<>>, children |-> <<>>,
     text |-> text]

Comment(text) ==
    [kind |-> "comment", name |-> "", attrs |-> <<>>, children |-> <<>>,
     text |-> text]

Document(children) ==
    [kind |-> "doc", name |-> "[document]", attrs |-> <<>>,
     children |-> children, text |-> ""]

NoNode == [kind |-> "none", name |-> "", attrs |-> <<>>, children |-> <<>>,
           text |-> ""]

\* isinstance(node, NavigableString): Comment is a subclass
IsNavigableString(n) == n.kind \in {"text", "comment"}

\* f' {attr}="{value}"'
AttrStr(attr, value) == " " \o attr \o "=\"" \o value \o "\""

\* node.decode(): the canonical serialisation of a node inside its parent
\* (a string by output_ready: a Comment between <!-- and -->)
RECURSIVE Decode(_)
Decode(n) ==
    IF n.kind = "text" THEN n.text
    ELSE IF n.kind = "comment" THEN "<!--" \o n.text \o "-->"
    ELSE LET inner == Join([i \in 1..Len(n.children) |->
                                Decode(n.children[i])])
         IN  IF n.kind = "doc" THEN inner
             ELSE "<" \o n.name
                    \o Join([i \in 1..Len(n.attrs) |->
                                AttrStr(n.attrs[i][1], n.attrs[i][2])])
                    \o ">" \o inner \o "</" \o n.name \o ">"

\* str(node): a Tag decodes; a NavigableString, a Comment too, is a str
\* and str() of it is its bare text
Str(n) == IF IsNavigableString(n) THEN n.text ELSE Decode(n)

\* level spaces
RECURSIVE Indent(_)
Indent(level) == IF level <= 0 THEN "" ELSE " " \o Indent(level - 1)

\* soup.prettify(): every tag and every non-blank string on a line of its
\* own, stripped, indented by one space per level
RECURSIVE Prettify(_, _)
Prettify(n, level) ==
    IF n.kind = "text"
    THEN IF Strip(n.text) = "" THEN ""
         ELSE Indent(level) \o Strip(n.text) \o "\n"
    ELSE IF n.kind = "comment"
    THEN Indent(level) \o Strip("<!--" \o n.text \o "-->") \o "\n"
    ELSE IF n.kind = "doc"
    THEN Join([i \in 1..Len(n.children) |-> Prettify(n.children[i], level)])
    ELSE Indent(level) \o "<" \o n.name
            \o Join([i \in 1..Len(n.attrs) |->
                        AttrStr(n.attrs[i][1], n.attrs[i][2])])
            \o ">\n"
            \o Join([i \in 1..Len(n.children) |->
                        Prettify(n.children[i], level + 1)])
            \o Indent(level) \o "</" \o n.name \o ">\n"

\* soup.select(name) for a type selector: the elements of that name among
\* the nodes and below them, in document order (an element before its
\* descendants)
RECURSIVE SelectBelow(_, _)
SelectBelow(children, name) ==
    IF children = <<>> THEN <<>>
    ELSE LET c == Head(children)
         IN  (IF c.kind = "tag"
              THEN (IF c.name = name THEN <<c>> ELSE <<>>)
                    \o SelectBelow(c.children, name)
              ELSE <<>>)
             \o SelectBelow(Tail(children), name)

Select(n, name) == SelectBelow(n.children, name)

-----------------------------------------------------------------------------
(* remove_html_comments_and_doctype and collapse_html_elements,            *)
(* html_extractor.py 9-58.                                                 *)

\* the parser never leaves two strings side by side: once a comment
\* between them is cut out of the markup they are one NavigableString
RECURSIVE MergeStrings(_)
MergeStrings(children) ==
    IF Len(children) < 2 THEN children
    ELSE IF children[1].kind = "text" /\ children[2].kind = "text"
    THEN MergeStrings(<<Text(children[1].text \o children[2].text)>>
                        \o SubSeq(children, 3, Len(children)))
    ELSE <<children[1]>> \o MergeStrings(Tail(children))

\* the children parsed from the markup with every <!--...--> removed
\* (line 19)
RECURSIVE WithoutComments(_)
WithoutComments(children) ==
    IF children = <<>> THEN <<>>
    ELSE LET c == Head(children)
         IN  IF c.kind = "comment" THEN WithoutComments(Tail(children))
             ELSE IF c.kind = "text"
             THEN MergeStrings(<<c>> \o WithoutComments(Tail(children)))
             ELSE <<[c EXCEPT !.children = WithoutComments(c.children)]>>
                    \o WithoutComments(Tail(children))

RemoveComments(n) == [n EXCEPT !.children = WithoutComments(n.children)]

\* elem.string: the only child when it is a string, else the only child's
\* .string; None (here "") otherwise
RECURSIVE DotString(_)
DotString(n) ==
    IF Len(n.children) # 1 THEN ""
    ELSE IF IsNavigableString(n.children[1]) THEN n.children[1].text
    ELSE DotString(n.children[1])

\* len(s.splitlines()) for strings whose only line break is "\n"
RECURSIVE SplitLinesCount(_)
SplitLinesCount(s) ==
    IF s = "" THEN 0
    ELSE LET at == Find(s, "\n")
         IN  IF at < 0 THEN 1
             ELSE 1 + SplitLinesCount(SubSeq(s, at + 2, Len(s)))

\* lines 33-52: the text of the comment that replaces elem's content
CollapsedCommentText(elem) ==
    LET attr_count  == Len(elem.attrs)
        child_count == Len(elem.children)
        comment_parts ==
            (IF attr_count # 0
             THEN <<ToString(attr_count) \o " attrs">> ELSE <<>>)
            \o (IF DotString(elem) # ""
                THEN <<ToString(Len(DotString(elem))) \o " chars, "
                        \o ToString(SplitLinesCount(DotString(elem)))
                        \o " lines">>
                ELSE <<>>)
            \o (IF child_count # 0
                THEN <<ToString(child_count) \o " elems">> ELSE <<>>)
    IN  "Content collapsed: " \o JoinWith(", ", comment_parts) \o " omitted"

\* CollapsedElement without line 39: the attributes stay on the element
CollapsedElementKeepsAttrs(elem) ==
    Tag(elem.name, elem.attrs, <<Comment(CollapsedCommentText(elem))>>)

\* lines 37-39 and 51-56: elem without its attributes and content, holding
\* the comment alone
CollapsedElement(elem) ==
    Tag(elem.name, <<>>, <<Comment(CollapsedCommentText(elem))>>)

\* lines 32-56 for one selector: every matching element still in the tree
\* is collapsed
RECURSIVE CollapseSelector(_, _)
CollapseSelector(n, name) ==
    IF n.kind \in {"text", "comment"} THEN n
    ELSE IF n.kind = "tag" /\ n.name = name THEN CollapsedElement(n)
    ELSE [n EXCEPT !.children =
            [i \in 1..Len(n.children) |->
                CollapseSelector(n.children[i], name)]]

\* for name in collapsed_elements, on soup
RECURSIVE CollapseAll(_, _)
CollapseAll(soup, names) ==
    IF names = <<>> THEN soup
    ELSE CollapseAll(CollapseSelector(soup, Head(names)), Tail(names))

\* collapse_html_elements on the tree parsed from the markup
CollapseHtmlElements(soup, names) == CollapseAll(RemoveComments(soup), names)

-----------------------------------------------------------------------------
(* format_content and format_attributes, html_extractor.py 128-205.        *)

\* the characters of attribute names, in code-point order
NameChars == "-0123456789_abcdefghijklmnopqrstuvwxyz"

\* a < b as Python compares strings
RECURSIVE StrLess(_, _)
StrLess(a, b) ==
    IF b = "" THEN FALSE
    ELSE IF a = "" THEN TRUE
    ELSE IF CharAt(a, 0) = CharAt(b, 0)
    THEN StrLess(SubSeq(a, 2, Len(a)), SubSeq(b, 2, Len(b)))
    ELSE Find(NameChars, CharAt(a, 0)) < Find(NameChars, CharAt(b, 0))

\* sorted(names) for a set of strings
RECURSIVE Sorted(_)
Sorted(names) ==
    IF names = {} THEN <<>>
    ELSE LET least == CHOOSE x \in names :
                        \A y \in names \ {x} : StrLess(x, y)
         IN  <<least>> \o Sorted(names \ {least})

\* tag[attr]
AttrValue(tag, attr) ==
    LET i == CHOOSE i \in 1..Len(tag.attrs) : tag.attrs[i][1] = attr
    IN  tag.attrs[i][2]

\* set(tag.attrs.keys())
AttrNames(tag) == {tag.attrs[i][1] : i \in 1..Len(tag.attrs)}

\* attributes_with_focus_text, lines 128-132
AttributesWithFocusText(tag, focus) ==
    IF focus = "" THEN <<>>
    ELSE LET names == [i \in 1..Len(tag.attrs) |-> tag.attrs[i][1]]
             HasFocus(attr) == Contains(AttrValue(tag, attr), focus)
         IN  SelectSeq(names, HasFocus)

\* FormatContent shortening against max_content_size itself
FormatContentNoFloor(n, focus, max_content_size) ==
    IF n.kind = "comment" THEN "<!-- " \o n.text \o " --->"
    ELSE ShortenedString(Strip(n.text), focus, max_content_size,
                         DefaultContextLength)

\* format_content, lines 144-151
FormatContent(n, focus, max_content_size) ==
    IF n.kind = "comment" THEN "<!-- " \o n.text \o " --->"
    ELSE ShortenedString(Strip(n.text), focus,
                         Max(max_content_size, MinContentSize),
                         DefaultContextLength)

\* the fragment try_add_attribute sizes and may append, lines 170-171
AttributeFragment(tag, attr, focus) ==
    AttrStr(attr, ShortenedString(AttrValue(tag, attr), focus,
                                  DefaultMaxStringLength,
                                  DefaultContextLength))

\* the state of format_attributes before its loops, lines 161-163 and 179:
\* attrs_to_show, current_size, hidden_attr_count, all_attrs
NoAttributesYet(tag) ==
    [shown |-> <<>>, size |-> 0, hidden |-> 0, all_attrs |-> AttrNames(tag)]

\* TryAddAttribute without "hidden_attr_count += 1": an attribute that does
\* not fit is dropped uncounted
TryAddAttributeUncounted(st, attr, attr_str, max_size_for_attrs) ==
    IF attr \notin st.all_attrs THEN st
    ELSE IF st.size + Len(attr_str) <= max_size_for_attrs
    THEN [st EXCEPT !.shown = Append(@, attr_str),
                    !.size = @ + Len(attr_str),
                    !.all_attrs = @ \ {attr}]
    ELSE [st EXCEPT !.all_attrs = @ \ {attr}]

\* TryAddAttribute testing the size before the candidate is added
\* ("current_size <= max_size_for_attrs")
TryAddAttributeLate(st, attr, attr_str, max_size_for_attrs) ==
    IF attr \notin st.all_attrs THEN st
    ELSE IF st.size <= max_size_for_attrs
    THEN [st EXCEPT !.shown = Append(@, attr_str),
                    !.size = @ + Len(attr_str),
                    !.all_attrs = @ \ {attr}]
    ELSE [st EXCEPT !.hidden = @ + 1, !.all_attrs = @ \ {attr}]

\* the body of the loops of lines 183-199 for one candidate attr whose
\* fragment is attr_str: "if attr in all_attrs", try_add_attribute
\* (lines 172-177), the hidden count and all_attrs.remove
TryAddAttribute(st, attr, attr_str, max_size_for_attrs) ==
    IF attr \notin st.all_attrs THEN st
    ELSE IF st.size + Len(attr_str) <= max_size_for_attrs
    THEN [st EXCEPT !.shown = Append(@, attr_str),
                    !.size = @ + Len(attr_str),
                    !.all_attrs = @ \ {attr}]
    ELSE [st EXCEPT !.hidden = @ + 1, !.all_attrs = @ \ {attr}]

\* one loop of lines 183-199 over the candidates attrs
RECURSIVE TryAttributes(_, _, _, _, _)
TryAttributes(st, attrs, tag, focus, max_size_for_attrs) ==
    IF attrs = <<>> THEN st
    ELSE TryAttributes(
            TryAddAttribute(st, Head(attrs),
                            AttributeFragment(tag, Head(attrs), focus),
                            max_size_for_attrs),
            Tail(attrs), tag, focus, max_size_for_attrs)

\* lines 196-199: the loop over sorted(all_attrs)
TryOtherAttributes(st, tag, focus, max_size_for_attrs) ==
    TryAttributes(st, Sorted(st.all_attrs), tag, focus, max_size_for_attrs)

\* f" .. (+{hidden_attr_count} attrs)"
HiddenAttrsMarker(hidden_attr_count) ==
    " .. (+" \o ToString(hidden_attr_count) \o " attrs)"

\* AttributePlan with the first two loops exchanged: priority, focused,
\* others
AttributePlanPriorityFirst(tag, priority, focus, max_size_for_attrs) ==
    TryOtherAttributes(
        TryAttributes(
            TryAttributes(NoAttributesYet(tag), priority,
                          tag, focus, max_size_for_attrs),
            AttributesWithFocusText(tag, focus),
            tag, focus, max_size_for_attrs),
        tag, focus, max_size_for_attrs)

\* the three loops of lines 181-199: focused, priority, others
AttributePlan(tag, priority, focus, max_size_for_attrs) ==
    TryOtherAttributes(
        TryAttributes(
            TryAttributes(NoAttributesYet(tag),
                          AttributesWithFocusText(tag, focus),
                          tag, focus, max_size_for_attrs),
            priority, tag, focus, max_size_for_attrs),
        tag, focus, max_size_for_attrs)

\* lines 201-205: the list returned for the state plan after the loops
AttrsToShow(plan) ==
    IF plan.hidden > 0
    THEN Append(plan.shown, HiddenAttrsMarker(plan.hidden))
    ELSE plan.shown

\* format_attributes, lines 154-205
FormatAttributes(tag, priority, focus, max_size_for_attrs) ==
    AttrsToShow(AttributePlan(tag, priority, focus, max_size_for_attrs))

-----------------------------------------------------------------------------
(* format_children and format_element, html_extractor.py 208-357.          *)

\* children_with_focus_text, lines 135-141: 0-based indices
ChildrenWithFocusText(children, focus) ==
    IF focus = "" THEN <<>>
    ELSE LET HasFocus(i) == Contains(Str(children[i + 1]), focus)
         IN  SelectSeq([i \in 1..Len(children) |-> i - 1], HasFocus)

\* sorted(indices) for a set of integers
RECURSIVE Ascending(_)
Ascending(set) ==
    IF set = {} THEN <<>>
    ELSE <<Least(set)>> \o Ascending(set \ {Least(set)})

\* lines 225-236 for the focused children kept (line 222): the sorted
\* indices of the children to display.  In "child not in focused_children"
\* a node is compared with a list of integers, which never holds it: every
\* index is a candidate for the other slots.
IndicesToDisplay(children, focused_children, max_child_elements) ==
    Ascending(
        Elements(focused_children)
        \cup Elements(PySliceIdx(Len(children), 0,
                        max_child_elements - Len(focused_children))))

\* lines 219-236
ChildrenToDisplay(children, focus, max_child_elements) ==
    IndicesToDisplay(children,
        PySliceSeq(ChildrenWithFocusText(children, focus), 0,
                   max_child_elements),
        max_child_elements)

\* line 241: sum of len(str(child)) over the children to display
SizeOfDisplayedChildren(children, display) ==
    Sum([i \in 1..Len(display) |-> Len(Str(children[display[i] + 1]))])

\* AllocatedSize handing every child the whole max_size_for_children
AllocatedSizeWhole(max_size_for_children, child, size_of_displayed_children) ==
    max_size_for_children

\* lines 251-253
AllocatedSize(max_size_for_children, child, size_of_displayed_children) ==
    IntDiv(max_size_for_children * Len(Str(child)),
           size_of_displayed_children)

\* f"<!-- .. skipped {n} {word} .. -->"
SkippedPlaceholder(n) ==
    "<!-- .. skipped " \o ToString(n) \o " "
        \o (IF n > 1 THEN "items" ELSE "item") \o " .. -->"

\* line 304
AttrsSize(tag) ==
    Sum([i \in 1..Len(tag.attrs) |->
            Len(AttrStr(tag.attrs[i][1], tag.attrs[i][2]))])

\* lines 307-311
ChildrenSize(tag) ==
    Sum([i \in 1..Len(tag.children) |-> Len(Str(tag.children[i]))])

\* lines 329-338
MaxSizeForChildren(tag, separator, max_element_size) ==
    Max(IntDiv((max_element_size
                    - Len(separator \o "<" \o tag.name \o "></"
                            \o tag.name \o ">"))
                * ChildrenSize(tag),
               AttrsSize(tag) + ChildrenSize(tag)),
        0)

\* RunningIndexAfter without the "+ 1": the child just shown counts as
\* skipped
RunningIndexStale(child_index) == child_index

\* line 275: running_index after the child at child_index is appended
RunningIndexAfter(child_index) == child_index + 1

RECURSIVE FormatChildren(_, _, _, _, _, _)
RECURSIVE FormatElement(_, _, _, _, _)

\* the loop of lines 246-275 from position k of display, then lines
\* 278-281
RECURSIVE ChildrenLoop(_, _, _, _, _, _, _, _, _)
ChildrenLoop(children, display, k, running_index, size, separator, focus, priority, max_size_for_children) ==
    IF k > Len(display)
    THEN LET hidden_count == Len(children) - running_index
         IN  IF hidden_count > 0
             THEN <<SkippedPlaceholder(hidden_count)>> ELSE <<>>
    ELSE
        LET child_index == display[k]
            child       == children[child_index + 1]
            skipped     == child_index - running_index
        IN  (IF skipped # 0 THEN <<SkippedPlaceholder(skipped)>> ELSE <<>>)
            \o <<FormatElement(child, separator, focus, priority,
                    AllocatedSize(max_size_for_children, child, size))>>
            \o ChildrenLoop(children, display, k + 1,
                            RunningIndexAfter(child_index), size,
                            separator, focus, priority, max_size_for_children)

\* lines 238-283 for the indices display of the children to display
FormatDisplayed(children, display, separator, focus, priority, max_size_for_children) ==
    ChildrenLoop(children, display, 1, 0,
                 SizeOfDisplayedChildren(children, display),
                 separator, focus, priority, max_size_for_children)

\* format_children, lines 208-283: the list of fragments
FormatChildren(children, separator, focus, priority, max_size_for_children, max_child_elements) ==
    FormatDisplayed(children,
                    ChildrenToDisplay(children, focus, max_child_elements),
                    separator, focus, priority, max_size_for_children)

\* lines 340-356 for the text children of the formatted children
ElementAround(tag, separator, focus, priority, max_element_size, children) ==
    separator \o "<" \o tag.name
        \o Join(FormatAttributes(tag, priority, focus,
                    max_element_size
                        - Len(separator \o "<" \o tag.name \o "></"
                                \o tag.name \o ">")
                        - Len(children)))
        \o ">" \o children \o "</" \o tag.name \o ">"

\* FormatElement without the branch of lines 299-301: an element is
\* planned even when its serialisation fits
FormatElementAlwaysPlans(tag, separator, focus, priority, max_element_size) ==
    IF IsNavigableString(tag)
    THEN FormatContent(tag, focus, max_element_size)
    ELSE IF AttrsSize(tag) + ChildrenSize(tag) = 0
    THEN separator \o "<" \o tag.name \o "/>"
    ELSE IF ChildrenSize(tag) = 0
    THEN separator \o "<" \o tag.name
            \o Join(FormatAttributes(tag, priority, focus,
                        max_element_size
                            - Len(separator \o "<" \o tag.name \o "/>")))
            \o "/>"
    ELSE ElementAround(tag, separator, focus, priority, max_element_size,
            Join(FormatChildren(tag.children, separator, focus, priority,
                    MaxSizeForChildren(tag, separator, max_element_size),
                    DefaultMaxChildElements)))

\* format_element, lines 286-357
FormatElement(tag, separator, focus, priority, max_element_size) ==
    IF IsNavigableString(tag)
    THEN FormatContent(tag, focus, max_element_size)
    ELSE IF max_element_size >= Len(Str(tag)) THEN separator \o Str(tag)
    ELSE IF AttrsSize(tag) + ChildrenSize(tag) = 0
    THEN separator \o "<" \o tag.name \o "/>"
    ELSE IF ChildrenSize(tag) = 0
    THEN separator \o "<" \o tag.name
            \o Join(FormatAttributes(tag, priority, focus,
                        max_element_size
                            - Len(separator \o "<" \o tag.name \o "/>")))
            \o "/>"
    ELSE ElementAround(tag, separator, focus, priority, max_element_size,
            Join(FormatChildren(tag.children, separator, focus, priority,
                    MaxSizeForChildren(tag, separator, max_element_size),
                    DefaultMaxChildElements)))

\* the division of line 251 raises ZeroDivisionError: some child is to be
\* displayed and the displayed children serialise to nothing, here or in a
\* nested call
RECURSIVE FormatChildrenRaises(_, _, _, _, _)
FormatChildrenRaises(children, separator, focus, max_size_for_children, max_child_elements) ==
    LET display == ChildrenToDisplay(children, focus, max_child_elements)
        size    == SizeOfDisplayedChildren(children, display)
    IN  /\ display # <<>>
        /\ \/ size = 0
           \/ \E k \in 1..Len(display) :
                LET child == children[display[k] + 1]
                    max_element_size ==
                        AllocatedSize(max_size_for_children, child, size)
                IN  /\ child.kind = "tag"
                    /\ max_element_size < Len(Str(child))
                    /\ ChildrenSize(child) # 0
                    /\ FormatChildrenRaises(child.children, separator, focus,
                            MaxSizeForChildren(child, separator,
                                               max_element_size),
                            DefaultMaxChildElements)

\* format_element ends with the ZeroDivisionError of a format_children
\* call below it: the branch of lines 327-357 is taken and line 251 raises
FormatElementRaises(tag, separator, focus, max_element_size) ==
    /\ tag.kind = "tag"
    /\ max_element_size < Len(Str(tag))
    /\ ChildrenSize(tag) # 0
    /\ FormatChildrenRaises(tag.children, separator, focus,
            MaxSizeForChildren(tag, separator, max_element_size),
            DefaultMaxChildElements)

\* FormatContentHangs without the floor of line 149: max_content_size
\* itself is the maximum handed to shortened_string
FormatContentHangsNoFloor(n, focus, max_content_size) ==
    /\ n.kind # "comment"
    /\ ShortenedStringHangs(Strip(n.text), focus, max_content_size)

\* the shortened_string call of format_content, line 149, never returns
FormatContentHangs(n, focus, max_content_size) ==
    /\ n.kind # "comment"
    /\ ShortenedStringHangs(Strip(n.text), focus,
                            Max(max_content_size, MinContentSize))

\* a shortened_string call of try_add_attribute, line 170, never returns:
\* the loops of lines 183-199 call it once for every attribute of the tag
FormatAttributesHangs(tag, focus) ==
    \E attr \in AttrNames(tag) :
        ShortenedStringHangs(AttrValue(tag, attr), focus,
                             DefaultMaxStringLength)

RECURSIVE FormatElementHangs(_, _, _, _)

\* a format_element call of line 265 never returns
FormatChildrenHangs(children, separator, focus, max_size_for_children, max_child_elements) ==
    LET display == ChildrenToDisplay(children, focus, max_child_elements)
        size    == SizeOfDisplayedChildren(children, display)
    IN  /\ size # 0
        /\ \E k \in 1..Len(display) :
                FormatElementHangs(children[display[k] + 1], separator, focus,
                    AllocatedSize(max_size_for_children,
                                  children[display[k] + 1], size))

\* format_element never returns: a shortened_string call it makes, itself
\* or in a nested call for a child, never returns.  Every nested call is
\* for a child of tag, so the nesting ends at the leaves of the tree
FormatElementHangs(tag, separator, focus, max_element_size) ==
    IF IsNavigableString(tag)
    THEN FormatContentHangs(tag, focus, max_element_size)
    ELSE /\ max_element_size < Len(Str(tag))
         /\ AttrsSize(tag) + ChildrenSize(tag) # 0
         /\ \/ FormatAttributesHangs(tag, focus)
            \/ /\ ChildrenSize(tag) # 0
               /\ FormatChildrenHangs(tag.children, separator, focus,
                        MaxSizeForChildren(tag, separator, max_element_size),
                        DefaultMaxChildElements)

-----------------------------------------------------------------------------
(* pretty_print_html and html_explorer, html_extractor.py 442-498.         *)

\* line 485: filtered_elements[:max_matches]
FirstMatches(filtered_elements, maxm) == PySliceSeq(filtered_elements, 0, maxm)

\* PostFix with the note counting every match, not the matches left out
PostFixCountsAll(filtered_elements, maxm) ==
    IF Len(filtered_elements) > maxm
    THEN "\n .. " \o ToString(Len(filtered_elements))
            \o " additional matching elements"
    ELSE ""

\* lines 479 and 486-487: post_fix
PostFix(filtered_elements, maxm) ==
    IF Len(filtered_elements) > maxm
    THEN "\n .. " \o ToString(Len(filtered_elements) - maxm)
            \o " additional matching elements"
    ELSE ""

\* the tree the parser builds from the "\n"-joined markup of elements: the
\* elements with a "\n" string between neighbours
ParsedJoin(elements) ==
    Document([i \in 1..(IF elements = <<>> THEN 0
                        ELSE 2 * Len(elements) - 1) |->
                IF i % 2 = 1 THEN elements[(i + 1) \div 2] ELSE Text("\n")])

\* lines 482-487 for the list filtered_elements the selector matched:
\* html_content, post_fix, the number of matches and soup, the tree
\* pretty_print_html parses from html_content
Filtered(filtered_elements, maxm) ==
    [html_content |->
        JoinWith("\n", [i \in 1..Len(FirstMatches(filtered_elements, maxm)) |->
                            Str(FirstMatches(filtered_elements, maxm)[i])]),
     soup     |-> ParsedJoin(FirstMatches(filtered_elements, maxm)),
     post_fix |-> PostFix(filtered_elements, maxm),
     matched  |-> Len(filtered_elements)]

\* lines 479-487: the working document of html_explorer
FilterByCssSelector(doc, selector, maxm) ==
    IF selector = ""
    THEN [html_content |-> Decode(doc), soup |-> doc, post_fix |-> "",
          matched |-> 0]
    ELSE Filtered(Select(doc, selector), maxm)

\* FitsAsIs with the comparison of line 450 turned around
FitsAsIsReversed(html_content, max_total_length) ==
    Len(html_content) >= max_total_length

\* line 450: the fast path is taken
FitsAsIs(html_content, max_total_length) ==
    Len(html_content) <= max_total_length

\* FormattedHtml rendering every top-level node with format_element and
\* the whole max_total_length
FormattedHtmlEachNode(soup, priority, focus, max_total_length) ==
    JoinWith("\n",
        [i \in 1..Len(soup.children) |->
            FormatElement(soup.children[i], "\n", focus, priority,
                          max_total_length)])

\* lines 459-467: the text handed to truncate_until, for the collapsed soup
FormattedHtml(soup, priority, focus, max_total_length) ==
    JoinWith("\n",
        FormatChildren(soup.children, "\n", focus, priority, max_total_length,
                       DefaultMaxChildElements))

-----------------------------------------------------------------------------
(* Values of the variables a specification does not use.                   *)

NoWorking == [html_content |-> "", soup |-> NoNode, post_fix |-> "", matched |-> 0]

\* no workflow agent is built
NoAgent ==
    /\ transitions = <<>>
    /\ current_state = ""
    /\ messages = <<>>
    /\ deck = <<>>
    /\ board = <<>>
    /\ expectations = <<>>

-----------------------------------------------------------------------------
(* SpecShortener: one call of shortened_string.                            *)

ShortenerAlphabet == {"a", "."}

ContextLengths == {0, 1, DefaultContextLength}

InitShortener ==
    /\ pc = "call"
    /\ content \in Strings(ShortenerAlphabet, MaxContentLen)
    /\ focus_text \in Strings(ShortenerAlphabet, MaxFocusLen)
    /\ budget \in 0..MaxStringLength
    /\ context_length \in ContextLengths
    /\ node = NoNode
    /\ attribute_priority = <<>>
    /\ collapsed_elements = <<>>
    /\ css_selector = ""
    /\ max_matches = 0
    /\ working = NoWorking
    /\ path = ""
    /\ kept = <<>>
    /\ result = ""
    /\ NoAgent

\* the call returns
ShortenedStringReturns ==
    /\ pc = "call"
    /\ ~ShortenedStringHangs(content, focus_text, budget)
    /\ result' = ShortenedString(content, focus_text, budget, context_length)
    /\ path' = IF Len(content) <= budget THEN "fits"
               ELSE IF FocusBranch(content, focus_text) THEN "focus"
               ELSE "nofocus"
    /\ pc' = "done"
    /\ UNCHANGED agent_vars
    /\ UNCHANGED <<content, focus_text, budget, context_length, node,
                   attribute_priority, collapsed_elements, css_selector,
                   max_matches, working, kept>>

\* the call is stuck in the loop of lines 115-123
ShortenedStringSpins ==
    /\ pc = "call"
    /\ ShortenedStringHangs(content, focus_text, budget)
    /\ pc' = "hang"
    /\ path' = "nofocus"
    /\ UNCHANGED agent_vars
    /\ UNCHANGED <<content, focus_text, budget, context_length, node,
                   attribute_priority, collapsed_elements, css_selector,
                   max_matches, working, kept, result>>

NextShortener == ShortenedStringReturns \/ ShortenedStringSpins

SpecShortener == InitShortener /\ [][NextShortener]_vars

-----------------------------------------------------------------------------
(* SpecTruncator: one call of truncate_until.                              *)

TruncatorAlphabet == {"a", "b"}

\* the characters of focus_text: those of the text, and the pattern "."
FocusAlphabet == TruncatorAlphabet \cup {"."}

InitTruncator ==
    /\ pc = "call"
    /\ content \in Strings(TruncatorAlphabet, MaxHtmlLen)
    /\ focus_text \in Strings(FocusAlphabet, MaxFocusLen)
    /\ budget \in 0..MaxTruncLength
    /\ context_length = DefaultContextLength
    /\ node = NoNode
    /\ attribute_priority = <<>>
    /\ collapsed_elements = <<>>
    /\ css_selector = ""
    /\ max_matches = 0
    /\ working = NoWorking
    /\ path = ""
    /\ kept = <<>>
    /\ result = ""
    /\ NoAgent

\* which return statement of truncate_until is taken
TruncateUntilPath(original_html, focus, max_total_length) ==
    LET matches == IF focus = "" THEN <<>> ELSE FindIter(focus, original_html, 0)
        merged  == MergeSegments(<<>>, matches)
    IN  IF Len(original_html) <= max_total_length THEN "fits"
        ELSE IF matches = <<>> THEN "nomatch"
        ELSE IF max_total_length
                  - Sum([i \in 1..Len(merged) |-> merged[i][2] - merged[i][1]])
                  < 0 THEN "cut"
        ELSE "distributed"

TruncateUntilCall ==
    /\ pc = "call"
    /\ kept' = TruncateUntilParts(content, focus_text, budget).kept
    /\ result' = TruncateUntil(content, focus_text, budget)
    /\ path' = TruncateUntilPath(content, focus_text, budget)
    /\ pc' = "done"
    /\ UNCHANGED agent_vars
    /\ UNCHANGED <<content, focus_text, budget, context_length, node,
                   attribute_priority, collapsed_elements, css_selector,
                   max_matches, working>>

NextTruncator == TruncateUntilCall

SpecTruncator == InitTruncator /\ [][NextTruncator]_vars

-----------------------------------------------------------------------------
(* SpecAttributes: one call of format_attributes.                          *)

\* c repeated n times
RECURSIVE Rep(_, _)
Rep(c, n) ==
    IF n <= 0 THEN ""
    ELSE LET half == Rep(c, n \div 2)
         IN  half \o half \o (IF n % 2 = 1 THEN c ELSE "")

\* the attributes a tag of the model may carry
AttrPool ==
    {<<"id", "main">>, <<"href", "uuukeyuuu">>, <<"src", "key">>,
     <<"alt", Rep("v", LongPad)>>}

\* every arrangement of at most n attributes with distinct names
RECURSIVE AttrLists(_)
AttrLists(n) ==
    IF n = 0 THEN {<<>>}
    ELSE LET shorter == AttrLists(n - 1)
         IN  shorter \cup
             UNION {{Append(l, a) :
                        a \in {x \in AttrPool :
                                \A i \in 1..Len(l) : l[i][1] # x[1]}} :
                    l \in shorter}

PriorityLists == {<<>>, <<"href">>, <<"src", "id", "src">>, <<"zz", "alt">>}

InitAttributes ==
    /\ pc = "call"
    /\ node \in {Tag("a", attrs, <<>>) : attrs \in AttrLists(MaxAttrs)}
    /\ attribute_priority \in PriorityLists
    /\ focus_text \in {"", "key"}
    /\ budget \in {5 * k : k \in (-1)..MaxAttrBudgetSteps}
    /\ content = ""
    /\ context_length = DefaultContextLength
    /\ collapsed_elements = <<>>
    /\ css_selector = ""
    /\ max_matches = 0
    /\ working = NoWorking
    /\ path = ""
    /\ kept = <<>>
    /\ result = <<>>
    /\ NoAgent

FormatAttributesCall ==
    /\ pc = "call"
    /\ result' = FormatAttributes(node, attribute_priority, focus_text, budget)
    /\ pc' = "done"
    /\ UNCHANGED agent_vars
    /\ UNCHANGED <<content, focus_text, budget, context_length, node,
                   attribute_priority, collapsed_elements, css_selector,
                   max_matches, working, path, kept>>

NextAttributes == FormatAttributesCall

SpecAttributes == InitAttributes /\ [][NextAttributes]_vars

-----------------------------------------------------------------------------
(* SpecChildren: one call of format_children.                              *)

\* the nodes a children list of the model is made of
ChildPool ==
    {Tag("p", <<<<"id", "i">>>>, <<Text("the key text")>>),
     Text("plain"),
     Text("")}

\* every list of at most n nodes of pool
RECURSIVE ChildLists(_, _)
ChildLists(pool, n) ==
    IF n = 0 THEN {<<>>}
    ELSE LET shorter == ChildLists(pool, n - 1)
         IN  shorter \cup {Append(l, c) : l \in shorter, c \in pool}

ChildrenLists ==
    ChildLists(ChildPool, MaxMixedChildren)
        \cup ChildLists(ChildPool \ {Text("")}, MaxChildren)

InitChildren ==
    /\ pc = "call"
    /\ node \in {Document(children) : children \in ChildrenLists}
    /\ attribute_priority = <<>>
    /\ focus_text \in {"", "key"}
    /\ budget \in {0, SmallChildrenBudget, LargeChildrenBudget}
    /\ content = ""
    /\ context_length = DefaultContextLength
    /\ collapsed_elements = <<>>
    /\ css_selector = ""
    /\ max_matches = 0
    /\ working = NoWorking
    /\ path = ""
    /\ kept = <<>>
    /\ result = <<>>
    /\ NoAgent

\* the call returns its list of fragments
FormatChildrenReturns ==
    /\ pc = "call"
    /\ ~FormatChildrenRaises(node.children, "\n", focus_text, budget,
                             DefaultMaxChildElements)
    /\ result' = FormatChildren(node.children, "\n", focus_text,
                                attribute_priority, budget,
                                DefaultMaxChildElements)
    /\ pc' = "done"
    /\ UNCHANGED agent_vars
    /\ UNCHANGED <<content, focus_text, budget, context_length, node,
                   attribute_priority, collapsed_elements, css_selector,
                   max_matches, working, path, kept>>

\* the call ends with ZeroDivisionError
FormatChildrenZeroDivision ==
    /\ pc = "call"
    /\ FormatChildrenRaises(node.children, "\n", focus_text, budget,
                            DefaultMaxChildElements)
    /\ pc' = "raised"
    /\ UNCHANGED agent_vars
    /\ UNCHANGED <<content, focus_text, budget, context_length, node,
                   attribute_priority, collapsed_elements, css_selector,
                   max_matches, working, path, kept, result>>

NextChildren == FormatChildrenReturns \/ FormatChildrenZeroDivision

SpecChildren == InitChildren /\ [][NextChildren]_vars

-----------------------------------------------------------------------------
(* SpecElement: one call of format_element.                                *)

\* the nodes format_element is called with
ElementPool ==
    {Text("short"),
     Text("  " \o Rep("t", LongPad) \o " \n"),
     Text(Rep("t", 30) \o " key " \o Rep("u", 30)),
     Text(Rep("w", 40)),
     Comment("note"),
     Tag("br", <<>>, <<>>),
     Tag("a", <<<<"href", "uuukeyuuu">>, <<"id", "main">>>>, <<>>),
     Tag("p", <<>>, <<Text(Rep("w", 40))>>),
     Tag("p", <<<<"id", "main">>>>, <<Text("the key text")>>),
     Tag("div", <<<<"id", "main">>>>,
         <<Tag("p", <<>>, <<Text("one")>>), Text("plain"),
           Tag("p", <<>>, <<Text("two")>>), Text("more"),
           Tag("p", <<>>, <<Text("three")>>), Text("rest"),
           Tag("p", <<<<"id", "i">>>>, <<Text("the key text")>>)>>),
     Tag("ul", <<>>,
         <<Text(""), Text(""), Text(""), Text(""), Text(""),
           Text("sixth")>>)}

InitElement ==
    /\ pc = "call"
    /\ node \in ElementPool
    /\ attribute_priority \in {<<>>, <<"id">>}
    /\ focus_text \in {"", "key"}
    /\ budget \in 0..MaxElementSize
    /\ content = ""
    /\ context_length = DefaultContextLength
    /\ collapsed_elements = <<>>
    /\ css_selector = ""
    /\ max_matches = 0
    /\ working = NoWorking
    /\ path = ""
    /\ kept = <<>>
    /\ result = ""
    /\ NoAgent

\* the call returns its text
FormatElementReturns ==
    /\ pc = "call"
    /\ ~FormatElementRaises(node, "\n", focus_text, budget)
    /\ ~FormatElementHangs(node, "\n", focus_text, budget)
    /\ result' = FormatElement(node, "\n", focus_text, attribute_priority,
                               budget)
    /\ pc' = "done"
    /\ UNCHANGED agent_vars
    /\ UNCHANGED <<content, focus_text, budget, context_length, node,
                   attribute_priority, collapsed_elements, css_selector,
                   max_matches, working, path, kept>>

\* the call ends with ZeroDivisionError
FormatElementZeroDivision ==
    /\ pc = "call"
    /\ FormatElementRaises(node, "\n", focus_text, budget)
    /\ pc' = "raised"
    /\ UNCHANGED agent_vars
    /\ UNCHANGED <<content, focus_text, budget, context_length, node,
                   attribute_priority, collapsed_elements, css_selector,
                   max_matches, working, path, kept, result>>

NextElement == FormatElementReturns \/ FormatElementZeroDivision

SpecElement == InitElement /\ [][NextElement]_vars

-----------------------------------------------------------------------------

(* SpecExplorer: one call of html_explorer.                                *)

\* the i-th <p> of a document with n of them: the last holds the word
\* "key"; with c the first starts with a comment
Item(i, n, pad, c) ==
    Tag("p", <<>>,
        (IF c /\ i = 1 THEN <<Comment(Rep("c", pad + 10))>> ELSE <<>>)
        \o <<Text(Rep("x", pad) \o (IF i = n THEN "key" ELSE "t"))>>)

\* <div id= href=> p ... p [script] </div>: with s the document ends with a
\* <script src="SRC"> whose text is two lines long
MakeDoc(n, pad, s, c) ==
    Document(<<
        Tag("div",
            <<<<"id", "main">>, <<"href", Rep("u", pad) \o "key">>>>,
            [i \in 1..n |-> Item(i, n, pad, c)]
            \o (IF s THEN <<Tag("script", <<<<"src", "SRC">>>>,
                                <<Text("CODE\n" \o Rep("z", 3 * pad)
                                        \o "CODE")>>)>>
                ELSE <<>>))
    >>)

Docs ==
    {MakeDoc(n, pad, s, c) :
        n \in 0..MaxItems, pad \in {0, LongPad}, s \in BOOLEAN, c \in BOOLEAN}

InitExplorer ==
    /\ pc = "call"
    /\ node \in Docs
    /\ attribute_priority = <<"id">>
    /\ collapsed_elements \in {<<>>, <<"script">>}
    /\ focus_text \in {"", "key", "zz", "omitted"}
    /\ css_selector \in {"", "p", "div"}
    /\ budget \in {0, SmallBudget, MidBudget, WideBudget, LargeBudget}
    /\ max_matches \in 0..MaxMatchesBound \cup {DefaultMaxMatches}
    /\ content = ""
    /\ context_length = DefaultContextLength
    /\ working = NoWorking
    /\ path = ""
    /\ kept = <<>>
    /\ result = ""
    /\ NoAgent

\* lines 480-487
Filter ==
    /\ pc = "call"
    /\ working' = FilterByCssSelector(node, css_selector, max_matches)
    /\ pc' = "filtered"
    /\ UNCHANGED agent_vars
    /\ UNCHANGED <<content, focus_text, budget, context_length, node,
                   attribute_priority, collapsed_elements, css_selector,
                   max_matches, path, kept, result>>

\* lines 450-451, then line 497
ReturnFast ==
    /\ pc = "filtered"
    /\ FitsAsIs(working.html_content, budget)
    /\ result' = working.html_content \o working.post_fix
    /\ path' = "fast"
    /\ pc' = "done"
    /\ UNCHANGED agent_vars
    /\ UNCHANGED <<content, focus_text, budget, context_length, node,
                   attribute_priority, collapsed_elements, css_selector,
                   max_matches, working, kept>>

\* lines 453-455: soup becomes the collapsed tree and content its
\* prettify() text
Collapse ==
    /\ pc = "filtered"
    /\ ~FitsAsIs(working.html_content, budget)
    /\ working' = [working EXCEPT
                    !.soup = CollapseHtmlElements(@, collapsed_elements)]
    /\ content' = Prettify(working'.soup, 0)
    /\ pc' = "collapsed"
    /\ UNCHANGED agent_vars
    /\ UNCHANGED <<focus_text, budget, context_length, node,
                   attribute_priority, collapsed_elements, css_selector,
                   max_matches, path, kept, result>>

\* lines 456-457, then line 497
ReturnCollapsed ==
    /\ pc = "collapsed"
    /\ Len(content) <= budget
    /\ result' = content \o working.post_fix
    /\ path' = "collapsed"
    /\ pc' = "done"
    /\ UNCHANGED agent_vars
    /\ UNCHANGED <<content, focus_text, budget, context_length, node,
                   attribute_priority, collapsed_elements, css_selector,
                   max_matches, working, kept>>

\* lines 459-468, then line 497: content becomes formatted_html
ReturnRendered ==
    /\ pc = "collapsed"
    /\ ~(Len(content) <= budget)
    /\ ~FormatChildrenHangs(working.soup.children, "\n", focus_text, budget,
                            DefaultMaxChildElements)
    /\ content' = FormattedHtml(working.soup, attribute_priority, focus_text,
                                budget)
    /\ result' = TruncateUntil(content', focus_text, budget)
                    \o working.post_fix
    /\ path' = "rendered"
    /\ pc' = "done"
    /\ UNCHANGED agent_vars
    /\ UNCHANGED <<focus_text, budget, context_length, node,
                   attribute_priority, collapsed_elements, css_selector,
                   max_matches, working, kept>>

NextExplorer ==
    Filter \/ ReturnFast \/ Collapse \/ ReturnCollapsed \/ ReturnRendered

SpecExplorer == InitExplorer /\ [][NextExplorer]_vars

-----------------------------------------------------------------------------
(* src/llmstatemachine/workflow_agent.py: WorkflowAgentBuilder,            *)
(* WorkflowAgent and execute_function_call.                                *)

\* FUNCTION_NAME, line 14
FUNCTION_NAME == "ActionSelector"

\* str.lower for the ASCII letters
UpperLetters == "ABCDEFGHIJKLMNOPQRSTUVWXYZ"
LowerLetters == "abcdefghijklmnopqrstuvwxyz"

LowerChar(c) ==
    IF \E i \in 1..Len(UpperLetters) : SubSeq(UpperLetters, i, i) = c
    THEN LET i == CHOOSE i \in 1..Len(UpperLetters) :
                        SubSeq(UpperLetters, i, i) = c
         IN  SubSeq(LowerLetters, i, i)
    ELSE c

RECURSIVE Lower(_)
Lower(s) ==
    IF s = "" THEN ""
    ELSE LowerChar(SubSeq(s, 1, 1)) \o Lower(SubSeq(s, 2, Len(s)))

\* a transition function: its __name__, the next state it returns and
\* whether its docstring describes the parameter "argument"
TransitionFunction(name, next_state, documented) ==
    [name |-> name, next_state |-> next_state, documented |-> documented]

\* the result string the transition function func returns
ResultOf(func) == func.name \o " done"

\* a dict of the transitions table, line 203: the functions by __name__
Keys(functions) == {func.name : func \in functions}

\* dict.get, line 89: the functions registered under key (none or one)
Get(functions, key) == {func \in functions : func.name = key}

\* the table with the dict functions under state_name, lines 203 and 211
WithState(table, state_name, functions) ==
    [s \in DOMAIN table \cup {state_name} |->
        IF s = state_name THEN functions ELSE table[s]]

\* what a call does: the exception it raises ("" when it returns), the
\* value it returns and the state it leaves the agent in
Outcome(raised, value, next_state) ==
    [raised |-> raised, value |-> value, current_state |-> next_state]

\* WorkflowAgent.trigger, lines 88-96
TriggerOutcome(table, state, function_call) ==
    IF state \notin DOMAIN table THEN Outcome("KeyError", "", state)
    ELSE IF Get(table[state], function_call) # {}
    THEN LET transition_func == CHOOSE func \in Get(table[state], function_call) : TRUE
         IN  Outcome("", ResultOf(transition_func),
                     transition_func.next_state)
    ELSE Outcome("ValueError", "", state)

\* execute_function_call, lines 183-191
ExecuteFunctionCall(table, state, function_call) ==
    IF function_call.name # FUNCTION_NAME
    THEN Outcome("", "Error: function " \o function_call.name
                        \o " does not exist", state)
    ELSE TriggerOutcome(table, state, Lower(function_call.action))

\* function_def_action_selector, lines 121-158, raises KeyError: the
\* current state is not in the table, or parse_function_docstring found
\* no description of "argument" (line 130)
ActionSelectorRaises(table, state) ==
    \/ state \notin DOMAIN table
    \/ \E func \in table[state] : ~func.documented

\* function_def_action_selector: the enum "actions", lines 125-127
Actions(table, state) == Keys(table[state])

-----------------------------------------------------------------------------
(* SpecAgent: a WorkflowAgentBuilder, the WorkflowAgent it builds and the  *)
(* calls of trigger and step on it.                                        *)

\* the transition functions of the model
go     == TransitionFunction("go", "A", TRUE)
Go     == TransitionFunction("Go", "INIT", TRUE)
finish == TransitionFunction("finish", "END", TRUE)
lost   == TransitionFunction("lost", "NOWHERE", TRUE)
mute   == TransitionFunction("mute", "A", FALSE)

\* the sets of transition functions a state is added with
FunctionSets ==
    {{go}, {Go}, {go, Go}, {go, finish}, {finish, lost}, {mute}}

\* the state names given to the builder
StateNames == {"INIT", "A", "END"}

\* the events trigger is called with and the actions the model answers
Events == {"go", "Go", "finish", "lost", "mute", "other"}

\* the function_call of the answer of the chat model
FunctionCalls ==
    [name : {FUNCTION_NAME, "Other"}, action : Events]

InitAgent ==
    /\ pc = "building"
    /\ transitions = <<>>
    /\ current_state = ""
    /\ messages = <<>>
    /\ path = ""
    /\ result = ""
    /\ content = ""
    /\ focus_text = ""
    /\ budget = 0
    /\ context_length = 0
    /\ node = NoNode
    /\ attribute_priority = <<>>
    /\ collapsed_elements = <<>>
    /\ css_selector = ""
    /\ max_matches = 0
    /\ working = NoWorking
    /\ kept = <<>>
    /\ deck = <<>>
    /\ board = <<>>
    /\ expectations = <<>>

\* WorkflowAgentBuilder.add_state_and_transitions without the check of
\* lines 201-202: a state that is already there is given the new dict
AddStateAndTransitionsOverwrites ==
    /\ pc \in {"building", "running"}
    /\ \E state_name \in StateNames, transition_functions \in FunctionSets :
        /\ path' = ""
        /\ transitions' = WithState(transitions, state_name,
                                    transition_functions)
    /\ result' = ""
    /\ UNCHANGED <<pc, current_state, messages>>
    /\ UNCHANGED extractor_vars
    /\ UNCHANGED example_vars

\* WorkflowAgentBuilder.add_state_and_transitions, lines 198-206.  The
\* builder stays usable after build: WorkflowAgent.__init__ keeps the
\* builder's dict itself (lines 217 and 83), so a state added later is
\* seen by the agent
AddStateAndTransitions ==
    /\ pc \in {"building", "running"}
    /\ \E state_name \in StateNames, transition_functions \in FunctionSets :
        IF state_name \in DOMAIN transitions
        THEN /\ path' = "Exception"
             /\ UNCHANGED transitions
        ELSE /\ path' = ""
             /\ transitions' = WithState(transitions, state_name,
                                         transition_functions)
    /\ result' = ""
    /\ UNCHANGED <<pc, current_state, messages>>
    /\ UNCHANGED extractor_vars
    /\ UNCHANGED example_vars

\* WorkflowAgentBuilder.add_end_state, lines 208-212
AddEndState ==
    /\ pc \in {"building", "running"}
    /\ \E state_name \in StateNames :
        IF state_name \in DOMAIN transitions
        THEN /\ path' = "Exception"
             /\ UNCHANGED transitions
        ELSE /\ path' = ""
             /\ transitions' = WithState(transitions, state_name, {})
    /\ result' = ""
    /\ UNCHANGED <<pc, current_state, messages>>
    /\ UNCHANGED extractor_vars
    /\ UNCHANGED example_vars

\* WorkflowAgentBuilder.build and WorkflowAgent.__init__, lines 214-217 and
\* 80-86
Build ==
    /\ pc = "building"
    /\ IF "INIT" \notin DOMAIN transitions
       THEN /\ path' = "Exception"
            /\ UNCHANGED <<pc, current_state>>
       ELSE /\ path' = ""
            /\ pc' = "running"
            /\ current_state' = "INIT"
    /\ result' = ""
    /\ UNCHANGED <<transitions, messages>>
    /\ UNCHANGED extractor_vars
    /\ UNCHANGED example_vars

\* WorkflowAgent.add_system_message, lines 101-105
AddSystemMessage ==
    /\ pc = "running"
    /\ Len(messages) < MaxMessages
    /\ messages' = Append(messages, [role |-> "system", content |-> "goal"])
    /\ path' = ""
    /\ result' = ""
    /\ UNCHANGED <<pc, transitions, current_state>>
    /\ UNCHANGED extractor_vars
    /\ UNCHANGED example_vars

\* one call WorkflowAgent.trigger(function_call, args), lines 88-96
TriggerWith(function_call) ==
    /\ path' = TriggerOutcome(transitions, current_state,
                              function_call).raised
    /\ result' = TriggerOutcome(transitions, current_state,
                                function_call).value
    /\ current_state' = TriggerOutcome(transitions, current_state,
                                       function_call).current_state

\* WorkflowAgent.trigger called by the program, lines 88-96
Trigger ==
    /\ pc = "running"
    /\ \E function_call \in Events : TriggerWith(function_call)
    /\ UNCHANGED <<pc, transitions, messages>>
    /\ UNCHANGED extractor_vars
    /\ UNCHANGED example_vars

\* WorkflowAgent.step, lines 160-180, raises: in function_def_action_selector
\* (line 164) or in execute_function_call (line 174); nothing is appended
StepRaises ==
    /\ pc = "running"
    /\ \E function_call \in FunctionCalls :
        IF ActionSelectorRaises(transitions, current_state)
        THEN path' = "KeyError"
        ELSE /\ ExecuteFunctionCall(transitions, current_state,
                                    function_call).raised # ""
             /\ path' = ExecuteFunctionCall(transitions, current_state,
                                            function_call).raised
    /\ result' = ""
    /\ UNCHANGED <<pc, transitions, current_state, messages>>
    /\ UNCHANGED extractor_vars
    /\ UNCHANGED example_vars

\* WorkflowAgent.step, lines 160-180, returns: the answer of the model is
\* executed, then the answer and the function result are appended
StepReturns ==
    /\ pc = "running"
    /\ Len(messages) + 2 <= MaxMessages
    /\ ~ActionSelectorRaises(transitions, current_state)
    /\ \E function_call \in FunctionCalls :
        /\ ExecuteFunctionCall(transitions, current_state,
                               function_call).raised = ""
        /\ result' = ExecuteFunctionCall(transitions, current_state,
                                         function_call).value
        /\ current_state' = ExecuteFunctionCall(transitions, current_state,
                                                function_call).current_state
        /\ messages' = messages \o
                <<[role |-> "assistant", content |-> function_call.action],
                  [role |-> "function", content |-> result']>>
    /\ path' = ""
    /\ UNCHANGED <<pc, transitions>>
    /\ UNCHANGED extractor_vars
    /\ UNCHANGED example_vars

NextAgent ==
    \/ AddStateAndTransitions
    \/ AddEndState
    \/ Build
    \/ AddSystemMessage
    \/ Trigger
    \/ StepRaises
    \/ StepReturns

SpecAgent == InitAgent /\ [][NextAgent]_vars

-----------------------------------------------------------------------------
(* Transition functions that compute their result from the argument.       *)

\* WorkflowAgent.trigger, lines 88-96, for a transition function whose
\* call transition_func(*args) of line 91 does `called`: an exception of
\* the call leaves line 92 unreached
TriggerCalling(table, state, function_call, called) ==
    IF state \notin DOMAIN table THEN Outcome("KeyError", "", state)
    ELSE IF Get(table[state], function_call) # {} THEN called
    ELSE Outcome("ValueError", "", state)

\* line 89-90: the table has a function for the event in this state
Dispatches(table, state, function_call) ==
    state \in DOMAIN table /\ Get(table[state], function_call) # {}

-----------------------------------------------------------------------------
(* examples/memory_game.py.                                                *)

\* initialize_game(num_pairs): the program plays with 10 pairs (line 18),
\* the model with NumPairs
NumPairs == 2

\* initialize_game, lines 11-15: every shuffle of list(range(1, n + 1)) * 2
InitializeGame(num_pairs) ==
    {d \in [0..(2 * num_pairs - 1) -> 1..num_pairs] :
        \A v \in 1..num_pairs :
            Cardinality({i \in DOMAIN d : d[i] = v}) = 2}

\* all(board), line 34
All(cards) == \A i \in DOMAIN cards : cards[i]

\* int(argument), line 27: blanks around are dropped, then an optional
\* sign and decimal digits with single underscores between them
DecimalDigits == "0123456789"

IsDigit(c) == \E i \in 1..Len(DecimalDigits) : SubSeq(DecimalDigits, i, i) = c

DigitValue(c) ==
    (CHOOSE i \in 1..Len(DecimalDigits) : SubSeq(DecimalDigits, i, i) = c) - 1

Unsigned(s) ==
    IF Len(s) > 0 /\ CharAt(s, 0) \in {"+", "-"} THEN SubSeq(s, 2, Len(s))
    ELSE s

\* int(s) raises ValueError
IntRaises(s) ==
    LET u == Unsigned(Strip(s))
    IN  \/ u = ""
        \/ ~IsDigit(CharAt(u, 0))
        \/ ~IsDigit(CharAt(u, Len(u) - 1))
        \/ \E i \in 0..(Len(u) - 1) :
            /\ ~IsDigit(CharAt(u, i))
            /\ ~(CharAt(u, i) = "_" /\ IsDigit(CharAt(u, i - 1)))

RECURSIVE Decimal(_)
Decimal(u) ==
    IF u = "" THEN 0
    ELSE IF CharAt(u, Len(u) - 1) = "_" THEN Decimal(SubSeq(u, 1, Len(u) - 1))
    ELSE 10 * Decimal(SubSeq(u, 1, Len(u) - 1))
            + DigitValue(CharAt(u, Len(u) - 1))

\* int(s) when it does not raise
IntOf(s) ==
    IF CharAt(Strip(s), 0) = "-" THEN 0 - Decimal(Unsigned(Strip(s)))
    ELSE Decimal(Unsigned(Strip(s)))

\* board[position] raises IndexError, line 28
IndexRaises(cards, position) ==
    position >= Cardinality(DOMAIN cards)
        \/ position < 0 - Cardinality(DOMAIN cards)

\* the index board[position] reads: a negative one counts from the end
Index(cards, position) ==
    IF position < 0 THEN position + Cardinality(DOMAIN cards) ELSE position

\* the f-string of line 22
RECURSIVE BoardState(_, _, _)
BoardState(cards, shown, i) ==
    IF i >= Cardinality(DOMAIN cards) THEN ""
    ELSE (IF i > 0 THEN " " ELSE "") \o ToString(i) \o ":"
            \o (IF shown[i] THEN ToString(cards[i]) ELSE "X")
            \o BoardState(cards, shown, i + 1)

\* display_board, lines 21-23
DisplayBoard(argument) ==
    Outcome("", "display_board: (position:value or X if hidden) "
                    \o BoardState(deck, board, 0), "INIT")

\* board after "board[position] = not board[position]", lines 29 and 32
Flipped(cards, position) ==
    [cards EXCEPT ![Index(cards, position)] = ~@]

\* FlipCard that is content with one card face up: any(board) at line 34
FlipCardAny(argument) ==
    IF IntRaises(argument) THEN Outcome("ValueError", "", current_state)
    ELSE IF IndexRaises(board, IntOf(argument))
    THEN Outcome("IndexError", "", current_state)
    ELSE IF board[Index(board, IntOf(argument))]
    THEN Outcome("", "flip_card: Hide card at position "
                        \o ToString(IntOf(argument)) \o ".", "INIT")
    ELSE Outcome("", "flip_card: Showing card at position "
                        \o ToString(IntOf(argument)) \o ". Value is "
                        \o ToString(deck[Index(deck, IntOf(argument))]) \o ".",
                 "COMPLETE")

\* flip_card, lines 26-35: what it raises or returns
FlipCard(argument) ==
    IF IntRaises(argument) THEN Outcome("ValueError", "", current_state)
    ELSE IF IndexRaises(board, IntOf(argument))
    THEN Outcome("IndexError", "", current_state)
    ELSE IF board[Index(board, IntOf(argument))]
    THEN Outcome("", "flip_card: Hide card at position "
                        \o ToString(IntOf(argument)) \o ".", "INIT")
    ELSE Outcome("", "flip_card: Showing card at position "
                        \o ToString(IntOf(argument)) \o ". Value is "
                        \o ToString(deck[Index(deck, IntOf(argument))]) \o ".",
                 IF All(Flipped(board, IntOf(argument))) THEN "COMPLETE"
                 ELSE "INIT")

\* flip_card, lines 29 and 32: the board it leaves
FlipCardBoard(argument) ==
    IF IntRaises(argument) \/ IndexRaises(board, IntOf(argument)) THEN board
    ELSE Flipped(board, IntOf(argument))

\* game_done, lines 38-40
GameDone(argument) == Outcome("", argument, "DONE")

\* the transition functions by __name__; flip_card and display_board
\* have no docstring and that of game_done has no "Parameters" section,
\* so parse_function_docstring finds no description of "argument"
\* in any of them
MemoryCall(function_call, argument) ==
    CASE function_call = "flip_card" -> FlipCard(argument)
      [] function_call = "display_board" -> DisplayBoard(argument)
      [] function_call = "game_done" -> GameDone(argument)
      [] OTHER -> Outcome("TypeError", "", current_state)

\* the table of lines 43-46
MemoryTransitions ==
    WithState(
        WithState(
            WithState(<<>>, "INIT",
                {TransitionFunction("flip_card", "", FALSE),
                 TransitionFunction("display_board", "", FALSE)}),
            "COMPLETE", {TransitionFunction("game_done", "", FALSE)}),
        "DONE", {})

\* the events and arguments trigger is called with: every position of
\* the board, positions off the board and strings that are no integer
MemoryEvents == {"flip_card", "display_board", "game_done", "other"}

MemoryArguments ==
    {ToString(i) : i \in (0 - 2 * NumPairs - 1)..(2 * NumPairs)}
        \cup {"x", "", " 1 "}

\* lines 18 and 43-49: the cards face down, the agent built, the system
\* message added
InitMemoryGame ==
    /\ pc = "running"
    /\ deck \in InitializeGame(NumPairs)
    /\ board = [i \in 0..(2 * NumPairs - 1) |-> FALSE]
    /\ transitions = MemoryTransitions
    /\ current_state = "INIT"
    /\ messages = <<[role |-> "system", content |-> "goal"]>>
    /\ expectations = <<>>
    /\ path = ""
    /\ result = ""
    /\ content = ""
    /\ focus_text = ""
    /\ budget = 0
    /\ context_length = 0
    /\ node = NoNode
    /\ attribute_priority = <<>>
    /\ collapsed_elements = <<>>
    /\ css_selector = ""
    /\ max_matches = 0
    /\ working = NoWorking
    /\ kept = <<>>

\* one call memory_game_agent.trigger(function_call, [argument])
MemoryTriggerWith(function_call, argument) ==
    /\ path' = TriggerCalling(transitions, current_state, function_call,
                    MemoryCall(function_call, argument)).raised
    /\ result' = TriggerCalling(transitions, current_state, function_call,
                    MemoryCall(function_call, argument)).value
    /\ current_state' =
            TriggerCalling(transitions, current_state, function_call,
                    MemoryCall(function_call, argument)).current_state
    /\ board' = IF Dispatches(transitions, current_state, function_call)
                    /\ function_call = "flip_card"
                THEN FlipCardBoard(argument) ELSE board

\* WorkflowAgent.trigger on the agent of the game
MemoryTrigger ==
    /\ pc = "running"
    /\ \E function_call \in MemoryEvents, argument \in MemoryArguments :
        MemoryTriggerWith(function_call, argument)
    /\ UNCHANGED <<pc, transitions, messages, deck, expectations>>
    /\ UNCHANGED extractor_vars

\* lines 57-58: a pass of the loop calls step, which raises KeyError in
\* function_def_action_selector (workflow_agent.py line 130) and ends the
\* program
MemoryStepRaises ==
    /\ pc = "running"
    /\ current_state # "DONE"
    /\ ActionSelectorRaises(transitions, current_state)
    /\ path' = "KeyError"
    /\ result' = ""
    /\ pc' = "crashed"
    /\ UNCHANGED <<transitions, current_state, messages>>
    /\ UNCHANGED example_vars
    /\ UNCHANGED extractor_vars

\* lines 57-59: the loop ends in DONE
MemoryLoopEnds ==
    /\ pc = "running"
    /\ current_state = "DONE"
    /\ pc' = "finished"
    /\ UNCHANGED <<path, result, transitions, current_state, messages>>
    /\ UNCHANGED example_vars
    /\ UNCHANGED extractor_vars

NextMemoryGame == MemoryTrigger \/ MemoryStepRaises \/ MemoryLoopEnds

SpecMemoryGame == InitMemoryGame /\ [][NextMemoryGame]_vars

-----------------------------------------------------------------------------
(* examples/html_agent/html_agent.py.                                      *)

\* focus: max_total_length=3000, line 25
FocusMaxTotalLength == 3000
\* html_explorer(max_total_length=4000), html_extractor.py line 477
DefaultMaxTotalLength == 4000
\* select: max_matches=20, line 37
SelectMaxMatches == 20
\* validate: max_matches=10000, line 57
ValidateMaxMatches == 10000

\* pretty_print_html, html_extractor.py lines 442-468, for the working
\* document w of html_explorer, when format_children does not raise
PrettyPrintHtml(w, priority, collapsed, focus, max_total_length) ==
    IF FitsAsIs(w.html_content, max_total_length) THEN w.html_content
    ELSE IF Len(Prettify(CollapseHtmlElements(w.soup, collapsed), 0))
                <= max_total_length
    THEN Prettify(CollapseHtmlElements(w.soup, collapsed), 0)
    ELSE TruncateUntil(
            FormattedHtml(CollapseHtmlElements(w.soup, collapsed), priority,
                          focus, max_total_length),
            focus, max_total_length)

\* html_explorer, html_extractor.py lines 471-498, with the default
\* attribute_priority and collapsed_elements
HtmlExplorer(doc, focus, selector, max_total_length, maxm) ==
    PrettyPrintHtml(FilterByCssSelector(doc, selector, maxm), <<>>, <<>>,
                    focus, max_total_length)
        \o FilterByCssSelector(doc, selector, maxm).post_fix

\* the fence of three grave accents around the output in the f-strings
\* of lines 26 and 44: a string of the model cannot hold that character,
\* three apostrophes stand for it
Fence == "'''"

\* focus, lines 17-26
FocusAction(argument) ==
    Outcome("", "focus \"" \o argument \o "\":\n" \o Fence \o "\n"
                    \o HtmlExplorer(node, argument, "", FocusMaxTotalLength,
                                    DefaultMaxMatches)
                    \o "\n" \o Fence,
            "INIT")

\* "not result", line 38: result is the function of line 81, and a
\* function is true
NotResult == FALSE

\* select, lines 29-46
SelectAction(argument) ==
    IF NotResult
    THEN Outcome("", "select \"" \o argument
                        \o "\" did not return any elements.", "INIT")
    ELSE Outcome("", "select \"" \o argument \o "\":\n" \o Fence \o "\n"
                        \o HtmlExplorer(node, "", argument,
                                        DefaultMaxTotalLength,
                                        SelectMaxMatches)
                        \o "\n" \o Fence,
                 "SELECTED_NON_EMPTY")

\* ValidateLoop that does not look for the expectations in the output
RECURSIVE ValidateLoopSelectorOnly(_, _, _)
ValidateLoopSelectorOnly(argument, output, todo) ==
    IF todo = <<>>
    THEN Outcome("", "validate \"" \o argument \o "\" seems valid.",
                 "VALIDATED")
    ELSE IF Contains(argument, Head(todo))
    THEN Outcome("", "validate \"" \o argument
                        \o "\" failed: css selector contains text \""
                        \o Head(todo) \o "\". "
                        \o "Do not use the expected text in the selector.",
                 "SELECTED_NON_EMPTY")
    ELSE ValidateLoopSelectorOnly(argument, output, Tail(todo))

\* validate, lines 63-78: the loop over the expectations todo and the
\* return after it
RECURSIVE ValidateLoop(_, _, _)
ValidateLoop(argument, output, todo) ==
    IF todo = <<>>
    THEN Outcome("", "validate \"" \o argument \o "\" seems valid.",
                 "VALIDATED")
    ELSE IF Contains(argument, Head(todo))
    THEN Outcome("", "validate \"" \o argument
                        \o "\" failed: css selector contains text \""
                        \o Head(todo) \o "\". "
                        \o "Do not use the expected text in the selector.",
                 "SELECTED_NON_EMPTY")
    ELSE IF ~Contains(output, Head(todo))
    THEN Outcome("", "validate \"" \o argument
                        \o "\" did not contain element with \""
                        \o Head(todo) \o "\".",
                 "SELECTED_NON_EMPTY")
    ELSE ValidateLoop(argument, output, Tail(todo))

\* validate, lines 58-78, for the output of line 57
ValidateOutput(argument, output) ==
    IF output = ""
    THEN Outcome("", "validate \"" \o argument
                        \o "\" did not return any elements.",
                 "SELECTED_NON_EMPTY")
    ELSE ValidateLoop(argument, output, expectations)

\* validate, line 57, then the rest
ValidateAction(argument) ==
    ValidateOutput(argument,
                   HtmlExplorer(node, "", argument, DefaultMaxTotalLength,
                                ValidateMaxMatches))

\* result, lines 80-89
ResultAction(argument) == Outcome("", argument, "DONE")

\* the transition functions by __name__; each docstring describes
\* "argument"
HtmlCall(function_call, argument) ==
    CASE function_call = "focus" -> FocusAction(argument)
      [] function_call = "select" -> SelectAction(argument)
      [] function_call = "validate" -> ValidateAction(argument)
      [] function_call = "result" -> ResultAction(argument)
      [] OTHER -> Outcome("TypeError", "", current_state)

\* the table of lines 127-131
HtmlTransitions ==
    WithState(
        WithState(
            WithState(
                WithState(<<>>, "INIT",
                    {TransitionFunction("focus", "", TRUE),
                     TransitionFunction("select", "", TRUE)}),
                "SELECTED_NON_EMPTY",
                {TransitionFunction("focus", "", TRUE),
                 TransitionFunction("select", "", TRUE),
                 TransitionFunction("validate", "", TRUE)}),
            "VALIDATED",
            {TransitionFunction("focus", "", TRUE),
             TransitionFunction("select", "", TRUE),
             TransitionFunction("validate", "", TRUE),
             TransitionFunction("result", "", TRUE)}),
        "DONE", {})

\* most passes of the loop of lines 158-159
MaxHtmlSteps == 3

\* the files the program is started on, as the parser sees them
HtmlDocs ==
    {Document(<<Tag("div", <<>>,
                    <<Tag("p", <<>>, <<Text("one")>>),
                      Tag("p", <<>>, <<Text("two")>>)>>)>>),
     Document(<<Tag("p", <<>>, <<Text("one")>>),
                Tag("span", <<>>, <<Text("two")>>)>>)}

\* the example texts the user may enter, lines 114-126: the program keeps
\* those that occur in the file
ExampleLists == {<<>>, <<"one">>, <<"one", "two">>, <<"p">>}

\* the answers of the chat model: line 165 of workflow_agent.py makes it
\* call ActionSelector; the action is one of the enum or any other string
HtmlActions == {"focus", "select", "validate", "result", "Validate"}

HtmlArguments == {"", "p", "div", "span"}

\* lines 108-153: the file read, the examples entered, the agent built
\* and its two messages added
InitHtmlAgent ==
    /\ pc = "running"
    /\ node \in HtmlDocs
    /\ expectations \in
        {l \in ExampleLists :
            \A i \in 1..Len(l) : Contains(Decode(node), l[i])}
    /\ transitions = HtmlTransitions
    /\ current_state = "INIT"
    /\ messages = <<[role |-> "system", content |-> "assistant"],
                    [role |-> "user", content |-> "assignment"]>>
    /\ deck = <<>>
    /\ board = <<>>
    /\ path = ""
    /\ result = ""
    /\ content = ""
    /\ focus_text = ""
    /\ budget = 0
    /\ context_length = 0
    /\ attribute_priority = <<>>
    /\ collapsed_elements = <<>>
    /\ css_selector = ""
    /\ max_matches = 0
    /\ working = NoWorking
    /\ kept = <<>>

\* execute_function_call, workflow_agent.py lines 183-191, for the answer
\* ActionSelector(action, argument)
HtmlExecute(action, argument) ==
    TriggerCalling(transitions, current_state, Lower(action),
                   HtmlCall(Lower(action), argument))

\* WorkflowAgent.step, workflow_agent.py lines 174-180, when
\* execute_function_call does res for the answer
HtmlStepAppends(action, argument, res) ==
    /\ res.raised = ""
    /\ result' = res.value
    /\ current_state' = res.current_state
    /\ messages' = messages \o
            <<[role |-> "assistant", content |-> action,
               argument |-> argument],
              [role |-> "function", content |-> res.value]>>

\* lines 158-159 with WorkflowAgent.step, workflow_agent.py lines 160-180:
\* the answer is executed, then the answer and the function result are
\* appended
HtmlStepReturns ==
    /\ pc = "running"
    /\ current_state # "DONE"
    /\ Len(messages) < 2 + 2 * MaxHtmlSteps
    /\ ~ActionSelectorRaises(transitions, current_state)
    /\ \E action \in HtmlActions, argument \in HtmlArguments :
        HtmlStepAppends(action, argument, HtmlExecute(action, argument))
    /\ path' = ""
    /\ UNCHANGED <<pc, transitions>>
    /\ UNCHANGED example_vars
    /\ UNCHANGED extractor_vars

\* the step raises (the action has no transition in the current state):
\* nothing is appended and the program ends
HtmlStepRaises ==
    /\ pc = "running"
    /\ current_state # "DONE"
    /\ ~ActionSelectorRaises(transitions, current_state)
    /\ \E action \in HtmlActions, argument \in HtmlArguments :
        /\ HtmlExecute(action, argument).raised # ""
        /\ path' = HtmlExecute(action, argument).raised
    /\ result' = ""
    /\ pc' = "crashed"
    /\ UNCHANGED <<transitions, current_state, messages>>
    /\ UNCHANGED example_vars
    /\ UNCHANGED extractor_vars

\* lines 158-160: the loop ends in DONE and the result is printed
HtmlLoopEnds ==
    /\ pc = "running"
    /\ current_state = "DONE"
    /\ pc' = "finished"
    /\ UNCHANGED <<path, result, transitions, current_state, messages>>
    /\ UNCHANGED example_vars
    /\ UNCHANGED extractor_vars

NextHtmlAgent == HtmlStepReturns \/ HtmlStepRaises \/ HtmlLoopEnds

SpecHtmlAgent == InitHtmlAgent /\ [][NextHtmlAgent]_vars

-----------------------------------------------------------------------------
(* The claims.                                                             *)

\* s.endswith(t)
EndsWith(s, t) ==
    Len(s) >= Len(t) /\ SubSeq(s, Len(s) - Len(t) + 1, Len(s)) = t

\* the length of the minimal skeletons "\n<name></name>" of every tag at or
\* below n
RECURSIVE SkeletonSize(_)
SkeletonSize(n) ==
    (IF n.kind = "tag" THEN Len("\n<" \o n.name \o "></" \o n.name \o ">")
     ELSE 0)
    + Sum([i \in 1..Len(n.children) |-> SkeletonSize(n.children[i])])

\* C1: the string html_explorer returns is at most max_total_length long,
\* plus one "characters omitted" marker, the minimal skeletons of the tags
\* and the overflow note.  (SpecExplorer)
C1_SizeBound ==
    pc = "done" =>
        Len(result) <= budget + Len(OmittedMarker(Len(content)))
                        + SkeletonSize(working.soup) + Len(working.post_fix)

\* C2: when the markup contains the focus text F and len(F) <=
\* max_total_length, the string html_explorer returns (no selector, nothing
\* collapsed) contains F.  (SpecExplorer)
C2_FocusPreserved ==
    (/\ pc = "done"
     /\ css_selector = ""
     /\ collapsed_elements = <<>>
     /\ focus_text # ""
     /\ Contains(Decode(node), focus_text)
     /\ Len(focus_text) <= budget)
        => Contains(result, focus_text)

\* the 0-based positions where f occurs in s, overlapping occurrences
\* included
Occurrences(s, f) ==
    {p \in 0..(Len(s) - Len(f)) : SubSeq(s, p + 1, p + Len(f)) = f}

\* the len characters of the source from position p on are copied to the
\* output side by side
KeptIntact(p, len) ==
    \E j \in 1..(Len(kept) - len + 1) :
        \A i \in 0..(len - 1) : kept[j + i] = p + i

\* C3: when truncate_until truncates and the merged preserved segments fit
\* in max_total_length, every occurrence of the focus text in the text,
\* overlapping ones included, is in the output, intact and contiguous.
\* (SpecTruncator)
C3_EveryOccurrenceKept ==
    (pc = "done" /\ path = "distributed") =>
        \A p \in Occurrences(content, focus_text) :
            KeptIntact(p, Len(focus_text))

\* C4: for a text longer than max_total_length, truncate_until returns at
\* most max_total_length characters of the text before the one marker it
\* appends, and never more characters than the text has.  (SpecTruncator)
C4_TruncatorBound ==
    (pc = "done" /\ Len(content) > budget) =>
        /\ Len(kept) <= budget
        /\ Len(kept) <= Len(content)

\* C5: with no css_selector and len(markup) <= max_total_length,
\* html_explorer returns the markup unchanged, whatever focus_text,
\* attribute_priority and collapsed_elements are.  (SpecExplorer)
C5_FastPathIdentity ==
    (/\ pc = "done"
     /\ css_selector = ""
     /\ Len(Decode(node)) <= budget)
        => result = Decode(node)

\* the fast path returned a document that holds a comment and a <script>
\* although script is to be collapsed and a focus text is given
C5_FastPathTaken ==
    /\ pc = "done"
    /\ css_selector = ""
    /\ Len(Decode(node)) <= budget
    /\ collapsed_elements = <<"script">>
    /\ focus_text = "key"
    /\ Contains(result, "<!--")
    /\ Contains(result, "CODE")

\* f"\n .. {M - max_matches} additional matching elements"
AdditionalNote(matched, maxm) ==
    "\n .. " \o ToString(matched - maxm) \o " additional matching elements"

\* C6: with a css_selector that matches M elements, the working document
\* is the first min(M, max_matches) matches in document order, serialised
\* and joined by "\n"; the output ends with the note of M - max_matches
\* additional matching elements when M > max_matches, on every return
\* path, and holds no such note when M <= max_matches.  (SpecExplorer)
C6_FirstMatchesAndNote ==
    (css_selector # "" /\ pc # "call") =>
        LET matches == Select(node, css_selector)
            M == Len(matches)
        IN  /\ working.matched = M
            /\ working.html_content =
                JoinWith("\n", [i \in 1..Min(M, max_matches) |->
                                    Decode(matches[i])])
            /\ pc = "done" =>
                IF M > max_matches
                THEN EndsWith(result, AdditionalNote(M, max_matches))
                ELSE ~Contains(result, "additional matching elements")

\* the full render path returned with the note: more elements matched than
\* max_matches, and the working document holds max_matches > 1 of them
C6_NoteOnRenderedPath ==
    /\ pc = "done"
    /\ path = "rendered"
    /\ css_selector = "p"
    /\ max_matches > 1
    /\ working.matched > max_matches
    /\ EndsWith(result, AdditionalNote(working.matched, max_matches))

\* the call is to collapse script and its working document holds the
\* <script src="SRC"> element with the text CODE
CollapsesScript ==
    /\ collapsed_elements = <<"script">>
    /\ Contains(working.html_content, "<script src=\"SRC\">")

\* the comment that stands for the collapsed <script> of the document
ScriptSummary == CollapsedCommentText(Select(node, "script")[1])

\* C7 as stated: for every max_total_length, the output of a call that
\* collapses an element with attributes and text holds the comment
\* "Content collapsed: ... omitted" and none of the element's text and
\* attributes.  (SpecExplorer)
C7_CollapsedForEveryLength ==
    (pc = "done" /\ CollapsesScript) =>
        /\ Contains(result, ScriptSummary)
        /\ ~Contains(result, "CODE")
        /\ ~Contains(result, "SRC")

\* C7 as amended: when the working markup is longer than max_total_length,
\* the output holds none of the collapsed element's text and attributes;
\* when moreover the prettified collapsed document fits in
\* max_total_length, the output holds the comment
\* <!--Content collapsed: ... omitted-->.  (SpecExplorer)
C7_CollapsedWhenOverLength ==
    (/\ pc = "done"
     /\ CollapsesScript
     /\ Len(working.html_content) > budget)
        => /\ ~Contains(result, "CODE")
           /\ ~Contains(result, "SRC")
           /\ path = "collapsed" =>
                Contains(result, "<!--" \o ScriptSummary \o "-->")

\* the collapse path returned a document whose <script> was collapsed
C7_CollapsedReturned ==
    /\ pc = "done"
    /\ CollapsesScript
    /\ Len(working.html_content) > budget
    /\ path = "collapsed"
    /\ Contains(result, "<script>\n")
    /\ Contains(result, "Content collapsed: 1 attrs")

\* the fragment is the marker " .. (+N attrs)"
IsHiddenAttrsMarker(fragment) == PySlice(fragment, 0, 6) = " .. (+"

\* C8: the count N of the marker " .. (+N attrs)" format_attributes
\* produces is the number of attributes of the tag minus the number of
\* rendered attribute fragments; the marker is there once, as the last
\* fragment, if and only if N > 0.  (SpecAttributes)
C8_HiddenCount ==
    pc = "done" =>
        LET markers  == {i \in 1..Len(result) : IsHiddenAttrsMarker(result[i])}
            rendered == Len(result) - Cardinality(markers)
            N        == Len(node.attrs) - rendered
        IN  /\ N >= 0
            /\ N > 0 => /\ markers = {Len(result)}
                        /\ result[Len(result)] = HiddenAttrsMarker(N)
            /\ N = 0 => markers = {}

\* a call rendered one attribute and hid two behind the marker
C8_SomeShownSomeHidden ==
    /\ pc = "done"
    /\ Len(node.attrs) = 3
    /\ Len(result) = 2
    /\ ~IsHiddenAttrsMarker(result[1])
    /\ result[2] = HiddenAttrsMarker(2)

\* the fragment is a placeholder "<!-- .. skipped N item(s) .. -->"
IsSkippedPlaceholder(fragment) ==
    PySlice(fragment, 0, 16) = "<!-- .. skipped "

\* the count N a placeholder states, -1 if it is none the code can write
\* for a list of most children
SkippedCount(fragment, most) ==
    IF \E n \in 0..most : fragment = SkippedPlaceholder(n)
    THEN CHOOSE n \in 0..most : fragment = SkippedPlaceholder(n)
    ELSE -1

\* C9: the counts of all the placeholders "skipped N item(s)" one
\* format_children call emits add up to len(children) minus the number of
\* children shown, and no placeholder has the count 0.  (SpecChildren)
C9_SkipAccounting ==
    pc = "done" =>
        LET children     == node.children
            placeholders == {i \in 1..Len(result) :
                                IsSkippedPlaceholder(result[i])}
            shown        == Len(result) - Cardinality(placeholders)
            counts       == [i \in 1..Len(result) |->
                                IF i \in placeholders
                                THEN SkippedCount(result[i], Len(children))
                                ELSE 0]
        IN  /\ \A i \in placeholders : counts[i] >= 1
            /\ Sum(counts) = Len(children) - shown
            /\ shown = Len(ChildrenToDisplay(children, focus_text,
                                             DefaultMaxChildElements))

\* a call emitted a placeholder between two shown children and a trailing
\* one
C9_GapAndTrailingPlaceholder ==
    /\ pc = "done"
    /\ Len(node.children) = 7
    /\ Len(result) = 7
    /\ \E i \in 2..5 : IsSkippedPlaceholder(result[i])
    /\ IsSkippedPlaceholder(result[7])

\* C10: when max_string_length is at least the focus window (the focus
\* text and context_length characters on each side) plus the two ".."
\* markers, the string shortened_string returns is at most
\* max_string_length long.  (SpecShortener)
C10_ShortenerFits ==
    (/\ pc = "done"
     /\ budget >= Len(focus_text) + 2 * context_length + 4)
        => Len(result) <= budget

\* seq without the later copies of an element
RECURSIVE Dedup(_)
Dedup(seq) ==
    IF seq = <<>> THEN <<>>
    ELSE LET front == Dedup(SubSeq(seq, 1, Len(seq) - 1))
             last  == seq[Len(seq)]
         IN  IF \E i \in 1..Len(front) : front[i] = last THEN front
             ELSE Append(front, last)

\* the attributes of tag in the order format_attributes considers them:
\* focused, then priority, then the others sorted
CandidateOrder(tag, priority, focus) ==
    Dedup(AttributesWithFocusText(tag, focus)
            \o SelectSeq(priority, LAMBDA a : a \in AttrNames(tag))
            \o Sorted(AttrNames(tag)))

\* the fragments of a result of format_attributes without the marker
AcceptedFragments(fragments) ==
    SelectSeq(fragments, LAMBDA f : ~IsHiddenAttrsMarker(f))

\* the total length of the fragments of shown that belong to the first k
\* candidates of order
AcceptedSizeBefore(order, k, shown, tag, focus) ==
    Sum([j \in 1..k |->
            IF \E i \in 1..Len(shown) :
                    shown[i] = AttributeFragment(tag, order[j], focus)
            THEN Len(AttributeFragment(tag, order[j], focus)) ELSE 0])

\* C11: for a budget >= 0 the fragments format_attributes accepts (the
\* marker aside) are together at most the budget long; a candidate is
\* accepted exactly when the total of the fragments accepted before it plus
\* its own length is within the budget, whatever was rejected before it;
\* every attribute is tried once, so the accepted fragments are those of
\* distinct candidates in candidate order.  (SpecAttributes)
C11_AttributeBudget ==
    (pc = "done" /\ budget >= 0) =>
        LET shown == AcceptedFragments(result)
            order == CandidateOrder(node, attribute_priority, focus_text)
            frag(a) == AttributeFragment(node, a, focus_text)
            accepted(k) == \E i \in 1..Len(shown) : shown[i] = frag(order[k])
        IN  /\ Sum([i \in 1..Len(shown) |-> Len(shown[i])]) <= budget
            /\ \A k \in 1..Len(order) :
                    accepted(k) <=>
                        AcceptedSizeBefore(order, k - 1, shown, node,
                                           focus_text)
                            + Len(frag(order[k])) <= budget
            /\ shown = [i \in 1..Len(shown) |->
                            frag(SelectSeq(order,
                                    LAMBDA a : \E j \in 1..Len(shown) :
                                                    shown[j] = frag(a))[i])]
            /\ Len(shown) <= Len(order)

\* a call rejected a candidate and accepted a later, smaller one
C11_LaterSmallerAccepted ==
    /\ pc = "done"
    /\ budget >= 0
    /\ LET shown == AcceptedFragments(result)
           order == CandidateOrder(node, attribute_priority, focus_text)
           frag(a) == AttributeFragment(node, a, focus_text)
           accepted(k) == \E i \in 1..Len(shown) : shown[i] = frag(order[k])
       IN  \E j, k \in 1..Len(order) :
                /\ j < k
                /\ ~accepted(j)
                /\ accepted(k)
                /\ Len(frag(order[k])) < Len(frag(order[j]))

\* C12: for every node and every budget that covers the skeletons of the
\* node's tags, the text format_element returns is at most the budget long,
\* one "characters omitted" marker not counted.  (SpecElement)
C12_BudgetNeverExceeded ==
    (pc = "done" /\ budget >= SkeletonSize(node)) =>
        Len(result) <= budget + Len(OmittedMarker(Len(Str(node))))

\* C13: when the focus text (not empty) does not occur in the markup given
\* to html_explorer, it does not occur in the string html_explorer returns.
\* (SpecExplorer)
C13_AbsentFocusStaysAbsent ==
    (/\ pc = "done"
     /\ focus_text # ""
     /\ ~Contains(Decode(node), focus_text))
        => ~Contains(result, focus_text)

\* the concatenation of the sequences of seqs
RECURSIVE Flatten(_)
Flatten(seqs) ==
    IF seqs = <<>> THEN <<>> ELSE Head(seqs) \o Flatten(Tail(seqs))

\* the number of children between the one shown before position k of
\* display and the one shown at position k
GapBefore(display, k) ==
    display[k] - (IF k = 1 THEN 0 ELSE display[k - 1] + 1)

\* the number of children after the last one shown
GapAfter(children, display) ==
    Len(children)
        - (IF display = <<>> THEN 0 ELSE display[Len(display)] + 1)

\* the top-level nodes of the working document
TopLevel == working.soup.children

\* the indices of the top-level nodes the child planner shows
TopLevelShown ==
    ChildrenToDisplay(TopLevel, focus_text, DefaultMaxChildElements)

\* C14 as stated: on the full render path the text handed to the truncator
\* is the join of format_element over every top-level node of the working
\* document, each with the whole max_total_length.  (SpecExplorer)
C14_EveryTopLevelNodeFullBudget ==
    path = "rendered" =>
        content = JoinWith("\n",
                    [i \in 1..Len(TopLevel) |->
                        FormatElement(TopLevel[i], "\n", focus_text,
                                      attribute_priority, budget)])

\* C14 amended: on the full render path the top-level nodes go through the
\* child planner with max_total_length as its budget: the text handed to
\* the truncator is the join with "\n" of, in document order, the
\* format_element text of each of the at most max_child_elements nodes
\* shown, each with its share of max_total_length in proportion to its
\* serialized size, and a "skipped" placeholder for every run of nodes not
\* shown.  (SpecExplorer)
C14_TopLevelPlanned ==
    path = "rendered" =>
        /\ Len(TopLevelShown) <= DefaultMaxChildElements
        /\ content = JoinWith("\n",
                Flatten([k \in 1..Len(TopLevelShown) |->
                    (IF GapBefore(TopLevelShown, k) > 0
                     THEN <<SkippedPlaceholder(GapBefore(TopLevelShown, k))>>
                     ELSE <<>>)
                    \o <<FormatElement(TopLevel[TopLevelShown[k] + 1], "\n",
                            focus_text, attribute_priority,
                            IntDiv(budget
                                    * Len(Str(TopLevel[TopLevelShown[k] + 1])),
                                   SizeOfDisplayedChildren(TopLevel,
                                                           TopLevelShown)))>>])
                \o (IF GapAfter(TopLevel, TopLevelShown) > 0
                    THEN <<SkippedPlaceholder(
                                GapAfter(TopLevel, TopLevelShown))>>
                    ELSE <<>>))

\* the full render path ran over more than max_child_elements selector
\* matches: some top-level nodes were skipped, before and after a shown one
C14_MatchesSkipped ==
    /\ path = "rendered"
    /\ css_selector = "p"
    /\ Len(TopLevel) > DefaultMaxChildElements
    /\ \E k \in 1..Len(TopLevelShown) : GapBefore(TopLevelShown, k) > 0
    /\ Contains(content, "skipped")

\* the children lists and focus with which the shown set of the child
\* planner is the first max_shown focused indices and the earliest indices
\* that are not focused, filling max_shown slots
ExpectedShown(children, focus, max_shown) ==
    LET focused == PySliceSeq(ChildrenWithFocusText(children, focus), 0,
                              max_shown)
        others  == SelectSeq([i \in 1..Len(children) |-> i - 1],
                        LAMBDA i : \A j \in 1..Len(focused) : focused[j] # i)
    IN  Elements(focused)
            \cup Elements(PySliceSeq(others, 0, max_shown - Len(focused)))

\* C15: format_children shows the first max_shown focused children and the
\* earliest children that are not focused, filling the remaining slots, so
\* exactly min(max_shown, len(children)) children are shown.
\* (SpecChildren)
C15_ShownSet ==
    pc = "done" =>
        LET children == node.children
            placeholders == {i \in 1..Len(result) :
                                IsSkippedPlaceholder(result[i])}
            shown == Len(result) - Cardinality(placeholders)
        IN  /\ shown = Min(DefaultMaxChildElements, Len(children))
            /\ Elements(ChildrenToDisplay(children, focus_text,
                                          DefaultMaxChildElements))
                = ExpectedShown(children, focus_text,
                                DefaultMaxChildElements)

\* C16: in case 4 of truncate_until the kept characters are, in the input
\* order and each taken once, every preserved segment in full and a prefix
\* of every gap before, between and after the segments.  (SpecTruncator)
C16_Reassembly ==
    (pc = "done" /\ path = "distributed") =>
        LET n        == Len(content)
            segments == MergeSegments(<<>>, FindIter(focus_text, content, 0))
            gaps     == TruncatedSegments(segments, n)
            taken(a, b) == {i \in a..(b - 1) :
                                \E k \in 1..Len(kept) : kept[k] = i}
        IN  /\ \A j, k \in 1..Len(kept) : j < k => kept[j] < kept[k]
            /\ \A s \in 1..Len(segments) :
                    taken(segments[s][1], segments[s][2])
                        = segments[s][1]..(segments[s][2] - 1)
            /\ \A g \in 1..Len(gaps) :
                    LET a == IF g = 1 THEN 0 ELSE segments[g - 1][2]
                        b == IF g > Len(segments) THEN n ELSE segments[g][1]
                    IN  \E m \in 0..(b - a) : taken(a, b) = a..(a + m - 1)

\* C17: a format_children call whose shown children have the total
\* serialized size 0 returns, with every shown child rendered with the
\* budget 0; it does not raise.  (SpecChildren)
C17_ZeroSizeReturns ==
    LET children == node.children
        display  == ChildrenToDisplay(children, focus_text,
                                      DefaultMaxChildElements)
    IN  (pc # "call" /\ SizeOfDisplayedChildren(children, display) = 0) =>
            /\ pc = "done"
            /\ \A k \in 1..Len(display) :
                \E i \in 1..Len(result) :
                    result[i] = FormatElement(children[display[k] + 1], "\n",
                                    focus_text, attribute_priority, 0)

C19_CurrentStateDeclared ==
    pc = "running" => current_state \in DOMAIN transitions

\* C20: whenever function_def_action_selector offers its enum of actions
\* for the current state, executing the answer "ActionSelector" with any
\* offered action name raises nothing and has the effect of the transition
\* function of that name: its result and its next state.  (SpecAgent)
C20_OfferedActionsExecutable ==
    (pc = "running" /\ ~ActionSelectorRaises(transitions, current_state)) =>
        \A func \in transitions[current_state] :
            ExecuteFunctionCall(transitions, current_state,
                    [name |-> FUNCTION_NAME, action |-> func.name])
                = Outcome("", ResultOf(func), func.next_state)

\* the budget floor(B * child_size / total_shown_size) of the k-th shown
\* child of a format_children call
ChildShare(children, display, k, B) ==
    (B * Len(Str(children[display[k] + 1])))
        \div SizeOfDisplayedChildren(children, display)

\* C26: in a format_children call with the budget B >= 0 that returns, the
\* k-th shown child is rendered by format_element with the budget
\* floor(B * child_size / total_shown_size), and these budgets sum up to at
\* most B.  (SpecChildren)
C26_SharesUnderAllocate ==
    (pc = "done" /\ budget >= 0) =>
        LET children == node.children
            display  == ChildrenToDisplay(children, focus_text,
                                          DefaultMaxChildElements)
            rendered == SelectSeq(result,
                                  LAMBDA f : ~IsSkippedPlaceholder(f))
        IN  /\ Len(rendered) = Len(display)
            /\ \A k \in 1..Len(display) :
                    rendered[k] = FormatElement(children[display[k] + 1],
                                    "\n", focus_text, attribute_priority,
                                    ChildShare(children, display, k, budget))
            /\ Sum([k \in 1..Len(display) |->
                        ChildShare(children, display, k, budget)]) <= budget

\* a call shared its budget among several children, rounded every share
\* down and left part of the budget unused; a child was shortened to its
\* share
C26_BudgetLeftOver ==
    /\ pc = "done"
    /\ budget > 0
    /\ LET children == node.children
           display  == ChildrenToDisplay(children, focus_text,
                                         DefaultMaxChildElements)
       IN  /\ Len(display) >= 2
           /\ Sum([k \in 1..Len(display) |->
                        ChildShare(children, display, k, budget)]) < budget
           /\ \E i \in 1..Len(result) : Contains(result[i], "(+1 attrs)")

\* the summary the claim describes for elem: "K attrs" for K > 0
\* attributes, "C chars, L lines" for direct text, "M elems" for M > 0
\* child elements, text nodes not counted
ClaimedSummary(elem) ==
    LET texts == SelectSeq(elem.children, LAMBDA c : c.kind = "text")
        direct == Join([i \in 1..Len(texts) |-> texts[i].text])
        M == Len(SelectSeq(elem.children, LAMBDA c : c.kind = "tag"))
    IN  JoinWith(", ",
            (IF Len(elem.attrs) > 0
             THEN <<ToString(Len(elem.attrs)) \o " attrs">> ELSE <<>>)
            \o (IF direct # ""
                THEN <<ToString(Len(direct)) \o " chars, "
                        \o ToString(SplitLinesCount(direct)) \o " lines">>
                ELSE <<>>)
            \o (IF M > 0 THEN <<ToString(M) \o " elems">> ELSE <<>>))

\* C27: the comment that replaces the content of a collapsed element reads
\* "Content collapsed: <summary> omitted" with the summary of the claim; in
\* particular "M elems" counts the child elements only.  (SpecExplorer)
C27_CollapsedSummary ==
    (pc = "collapsed" /\ CollapsesScript) =>
        LET collapsed == Select(working.soup, "script")[1]
        IN  /\ collapsed.attrs = <<>>
            /\ Len(collapsed.children) = 1
            /\ collapsed.children[1].kind = "comment"
            /\ collapsed.children[1].text
                = "Content collapsed: "
                    \o ClaimedSummary(Select(node, "script")[1])
                    \o " omitted"


-----------------------------------------------------------------------------
\* C28: a Comment node is rendered whole as '<!-- content -->' (opening
\* '<!--', the content, closing '-->'), whatever the budget
C28_CommentWellFormed ==
    (pc = "done" /\ node.kind = "comment")
        => result = "<!-- " \o node.text \o " -->"

\* C29: in the focus branch (content longer than the maximum, focus found,
\* focus no longer than the maximum) the result contains the focus text
\* in full
C29_FocusKeptInFull ==
    (pc = "done" /\ path = "focus" /\ Len(focus_text) <= budget)
        => Contains(result, focus_text)

\* C30: the branch without focus returns for every maximum, also below 2,
\* with a result no longer than the maximum
C30_NoFocusBranchReturns ==
    path = "nofocus" => (pc = "done" /\ Len(result) <= budget)

\* the event function_call has no transition in the current state
NoTransition(function_call) ==
    \/ current_state \notin DOMAIN transitions
    \/ Get(transitions[current_state], function_call) = {}

\* C23: a trigger with an event that has no transition in the current
\* state raises ValueError and leaves current_state and the messages as
\* they were
C23_NoTransitionRaisesValueError ==
    [][\A function_call \in Events :
        (pc = "running" /\ pc' = "running" /\ transitions' = transitions
            /\ NoTransition(function_call) /\ TriggerWith(function_call))
        => (path' = "ValueError" /\ current_state' = current_state
               /\ messages' = messages)]_vars

\* the end states of the table: the states with the empty dict of line 211
EndStates == {s \in DOMAIN transitions : transitions[s] = {}}

\* C24: an end state has no transitions and is never given any; once the
\* agent is in an end state every trigger raises ValueError and
\* current_state does not change any more
C24_EndStatesAbsorbing ==
    [][/\ \A s \in EndStates :
            s \in DOMAIN transitions' /\ transitions'[s] = {}
       /\ (pc = "running" /\ current_state \in EndStates)
            => /\ current_state' = current_state
               /\ \A function_call \in Events :
                    TriggerOutcome(transitions, current_state, function_call)
                        = Outcome("ValueError", "", current_state)]_vars

\* a trigger was refused in an end state that a transition led to
C24_RefusedInEndState ==
    /\ pc = "running"
    /\ current_state = "END"
    /\ current_state \in EndStates
    /\ path = "ValueError"

\* the position argument names is on the board and its card is face up
FaceUp(argument) ==
    /\ ~IntRaises(argument)
    /\ ~IndexRaises(board, IntOf(argument))
    /\ board[Index(board, IntOf(argument))]

\* C25: in the memory game the agent is in COMPLETE or DONE only with
\* every card face up, game_done has no transition while a card is
\* hidden, and a flip_card trigger on a face-up card hides that card and
\* leaves the agent in INIT
C25_CompleteOnlyAllFaceUp ==
    /\ [](/\ current_state \in {"COMPLETE", "DONE"} => All(board)
          /\ ~All(board)
                => ~Dispatches(transitions, current_state, "game_done"))
    /\ [][\A argument \in MemoryArguments :
            (pc = "running" /\ pc' = "running" /\ current_state = "INIT"
                /\ FaceUp(argument)
                /\ MemoryTriggerWith("flip_card", argument))
            => /\ current_state' = "INIT"
               /\ ~board'[Index(board, IntOf(argument))]
               /\ \A i \in DOMAIN board :
                    i # Index(board, IntOf(argument)) => board'[i] = board[i]
          ]_vars

\* the game was played to its end: game_done was triggered in COMPLETE
C25_GameDone ==
    /\ current_state = "DONE"
    /\ All(board)
    /\ path = ""
    /\ result \in MemoryArguments

\* the answer of the k-th last step that returned: its action as
\* execute_function_call triggers it, and its argument
ActionBack(k) == Lower(messages[Len(messages) + 1 - 2 * k].content)

ArgumentBack(k) == messages[Len(messages) + 1 - 2 * k].argument

\* C21: after a select whose selector matched no element the HTML agent
\* is in INIT, where validate is not offered
C21_EmptySelectStaysInit ==
    (/\ Len(messages) >= 4
     /\ ActionBack(1) = "select"
     /\ ArgumentBack(1) # ""
     /\ Select(node, ArgumentBack(1)) = <<>>)
        => (/\ current_state = "INIT"
            /\ "validate" \notin Actions(transitions, current_state))

\* a validate with this selector succeeds: the output of the selector is
\* not empty and holds every expectation, and the selector holds none
ValidateSucceeds(selector) ==
    /\ HtmlExplorer(node, "", selector, DefaultMaxTotalLength,
                    ValidateMaxMatches) # ""
    /\ \A i \in 1..Len(expectations) :
        /\ Contains(HtmlExplorer(node, "", selector, DefaultMaxTotalLength,
                                 ValidateMaxMatches), expectations[i])
        /\ ~Contains(selector, expectations[i])

\* C22: result is offered in VALIDATED only; the HTML agent is in
\* VALIDATED only right after a validate that succeeded, so a focus, a
\* select or a failed validate leaves it; and it is in DONE only right
\* after a result that directly followed a validate that succeeded
C22_DoneOnlyAfterValidation ==
    /\ \A s \in DOMAIN transitions :
        "result" \in Actions(transitions, s) => s = "VALIDATED"
    /\ current_state = "VALIDATED"
        => (/\ Len(messages) >= 4
            /\ ActionBack(1) = "validate"
            /\ ValidateSucceeds(ArgumentBack(1)))
    /\ current_state = "DONE"
        => (/\ Len(messages) >= 6
            /\ ActionBack(1) = "result"
            /\ ActionBack(2) = "validate"
            /\ ValidateSucceeds(ArgumentBack(2)))

\* a run ended in DONE with expectations to meet
C22_RunDone ==
    /\ pc = "finished"
    /\ current_state = "DONE"
    /\ expectations # <<>>

\* the tier of the attribute a of tag: 1 its value holds the focus text,
\* 2 it is named in the priority list, 3 otherwise
Tier(tag, priority, focus, a) ==
    IF focus # "" /\ Contains(AttrValue(tag, a), focus) THEN 1
    ELSE IF \E i \in 1..Len(priority) : priority[i] = a THEN 2
    ELSE 3

\* a comes before b inside their common tier t: by place among the
\* attributes of the tag, by first place in the priority list, by name
BeforeInTier(tag, priority, t, a, b) ==
    IF t = 1
    THEN Least({i \in 1..Len(tag.attrs) : tag.attrs[i][1] = a})
            < Least({i \in 1..Len(tag.attrs) : tag.attrs[i][1] = b})
    ELSE IF t = 2
    THEN Least({i \in 1..Len(priority) : priority[i] = a})
            < Least({i \in 1..Len(priority) : priority[i] = b})
    ELSE StrLess(a, b)

\* a is considered before b
ConsideredBefore(tag, priority, focus, a, b) ==
    \/ Tier(tag, priority, focus, a) < Tier(tag, priority, focus, b)
    \/ /\ Tier(tag, priority, focus, a) = Tier(tag, priority, focus, b)
       /\ BeforeInTier(tag, priority, Tier(tag, priority, focus, a), a, b)

\* the attribute whose fragment f is
AttrOf(tag, focus, f) ==
    CHOOSE a \in AttrNames(tag) : AttributeFragment(tag, a, focus) = f

C34_VerbatimAfterSeparator ==
    (node.kind = "tag" /\ Len(Str(node)) <= budget /\ pc # "call")
        => (pc = "done" /\ result = "\n" \o Str(node))

\* C34: an element whose serialisation is no longer than the budget is
\* returned as exactly that serialisation
C34_VerbatimExactly ==
    (node.kind = "tag" /\ Len(Str(node)) <= budget /\ pc # "call")
        => (pc = "done" /\ result = Str(node))

\* an element with attributes and more children than the planner shows
\* was returned verbatim
C34_LargeElementVerbatim ==
    /\ pc = "done"
    /\ node.kind = "tag"
    /\ Len(node.children) > DefaultMaxChildElements
    /\ node.attrs # <<>>
    /\ Len(Str(node)) <= budget
    /\ result = "\n" \o Str(node)

\* C35: when the text is longer than max_total_length and focus is empty
\* or does not occur in the text, truncate_until returns the first
\* max_total_length characters followed by ' .. <k> characters omitted',
\* k the number of characters dropped.  (SpecTruncator)
C35_NoFocusTruncation ==
    (/\ pc = "done"
     /\ Len(content) > budget
     /\ (focus_text = "" \/ ~Contains(content, focus_text)))
        => result = PySlice(content, 0, budget)
                        \o OmittedMarker(Len(content) - budget)

\* C32: when truncate_until gets to its segments, the merged preserved
\* segments are pairwise disjoint, ascending by start, and are the merge of
\* the spans of every occurrence of the focus text in the text: each
\* occurrence, overlapping ones included, lies inside one segment and every
\* position of a segment lies inside an occurrence.  (SpecTruncator)
C32_SegmentsMergeEveryOccurrence ==
    (pc = "done" /\ path \in {"cut", "distributed"}) =>
        LET merged == MergeSegments(<<>>, FindIter(focus_text, content, 0))
            spans  == Occurrences(content, focus_text)
        IN  /\ \A i \in 1..Len(merged) : merged[i][1] < merged[i][2]
            /\ \A i \in 1..(Len(merged) - 1) : merged[i][2] < merged[i + 1][1]
            /\ \A p \in spans : \E i \in 1..Len(merged) :
                    /\ merged[i][1] <= p
                    /\ p + Len(focus_text) <= merged[i][2]
            /\ \A i \in 1..Len(merged) : \A x \in merged[i][1]..(merged[i][2] - 1) :
                    \E p \in spans : p <= x /\ x < p + Len(focus_text)

\* C31: every call of html_explorer comes to its end, whatever the tree,
\* focus text, collapsed selectors and max_total_length: whenever the
\* renderer is to be called, no shortener call it makes, at any depth of
\* the nested format_element calls, has a maximum its trimming loop cannot
\* reach, so the step that returns the rendered text can be taken.
\* (SpecExplorer)
C31_HtmlExplorerTerminates ==
    pc = "collapsed" =>
        ~FormatChildrenHangs(working.soup.children, "\n", focus_text,
                             budget, DefaultMaxChildElements)

\* a call with max_total_length below 2 went through the renderer, whose
\* text nodes are longer than that, and returned
C31_RenderedWithTinyBudget ==
    /\ pc = "done"
    /\ path = "rendered"
    /\ budget < 2
    /\ \E i \in 1..Len(working.soup.children) :
          FormatContentHangsNoFloor(working.soup.children[i], focus_text, 0)
          \/ (/\ working.soup.children[i].kind = "tag"
              /\ \E j \in 1..Len(working.soup.children[i].children) :
                    FormatContentHangsNoFloor(
                        working.soup.children[i].children[j], focus_text, 0))

=============================================================================
